---- MODULE Spec2Model ----
(***************************************************************************)
(* Verification model of the diario-sjc-crawler pipeline:                  *)
(*   - HttpClient.fetch (tenacity retry around one GET)                    *)
(*   - ConcurrentHttpClient.fetch_all (semaphore + gather)                 *)
(*   - HtmlStructureParser.parse / deduplicate_keep_deepest                *)
(*   - GazetteCrawler.fetch_metadata_batch                                 *)
(*   - DataProcessor.aggregate_editions                                    *)
(***************************************************************************)
EXTENDS Integers, Sequences, FiniteSets, TLC

VARIABLES
    \* ---- HttpClient.fetch, one call ----
    f_max_retries,   \* the max_retries argument of the call
    f_attempt,       \* tenacity attempt_number: attempts made so far
    f_pc,            \* "requesting" | "sleeping" | "returned" | "raised"
    f_result,        \* value handed to the caller once f_pc = "returned"
    f_history        \* outcomes of the attempts of this call, in order

fetchVars == <<f_max_retries, f_attempt, f_pc, f_result, f_history>>

VARIABLES
    \* ---- ConcurrentHttpClient.fetch_all, one call ----
    impl,            \* which ConcurrentHttpClient: "http.concurrent" | "core.clients"
    base,            \* the base client: "HttpClient" | "Stub" (a replaced fetch)
    urls,            \* the URL list, a sequence
    max_concurrent,  \* the constructor argument
    max_retries,     \* the max_retries argument of fetch_all
    semaphore,       \* asyncio.Semaphore._value
    task,            \* task[i]: the coroutine fetch_with_semaphore(urls[i])
    requests,        \* requests[i]: GETs issued for position i, counted up
                     \* to max_retries + 1
    completed,       \* positions in the order their tasks finished
    fa_pc,           \* "gather" | "returned" | "raised"
    results          \* the list fetch_all returns

faVars == <<impl, base, urls, max_concurrent, max_retries, semaphore, task,
            requests, completed, fa_pc, results>>

VARIABLES
    \* ---- HtmlStructureParser.deduplicate_keep_deepest, one call ----
    d_articles,      \* the argument: a list of ArticleMetadata
    d_pc,            \* "called" | "returned"
    d_deduplicated   \* the list returned

dedupVars == <<d_articles, d_pc, d_deduplicated>>

VARIABLES
    \* ---- HtmlStructureParser.parse, one call ----
    p_html,          \* the navigation document
    p_edition_id,    \* the edition_id argument
    p_pc,            \* "called" | "returned" | "deduplicated"
    p_articles,      \* the list returned
    p_unique         \* deduplicate_keep_deepest of the list returned

parseVars == <<p_html, p_edition_id, p_pc, p_articles, p_unique>>

VARIABLES
    \* ---- GazetteCrawler.fetch_metadata_batch, one call ----
    m_pc,            \* "fetching" | "parsing" | "returned" | "raised"
    responses,       \* the list fetch_all handed back
    m_body,          \* m_body[i]: the body of the response at position i
    all_metadata,    \* the metadata list returned
    gazette_id_map   \* the edition_id -> pdf_url map returned

metaVars == <<m_pc, responses, m_body, all_metadata, gazette_id_map>>

VARIABLES
    \* ---- DataProcessor.aggregate_editions, one call ----
    a_metadata_list,          \* argument: list of GazetteMetadata
    a_articles_with_content,  \* argument: list of {article_metadata, content}
    a_pc,                     \* "called" | "returned"
    a_editions                \* the list returned

aggVars == <<a_metadata_list, a_articles_with_content, a_pc, a_editions>>

VARIABLES
    \* ---- ParquetStorage.save_editions, one call ----
    s_files,         \* the files under base_path: path -> rows
    s_now,           \* datetime.now(), in seconds
    s_partition_by,  \* the constructor argument: "day" | "month" | "year"
    s_editions,      \* the argument: a list of GazetteEdition
    s_pc             \* "called" | "returned" | "raised"

storeVars == <<s_files, s_now, s_partition_by, s_editions, s_pc>>

VARIABLES
    \* ---- GazetteCrawler.run, one call ----
    r_all_urls,      \* all_urls of run_batched: the metadata URLs
    r_batch_size,    \* config.batch_size
    r_sem,           \* the value of concurrent_client.semaphore
    r_i,             \* the loop variable i of run_batched
    r_pc,            \* "loop" | "phase1" | "phase2" | "phase3" | "yield" |
                     \* "sleep" | "returned" | "raised"
    r_tasks,         \* the fetch tasks of the current batch, all phases
    r_metadata_list, \* metadata_list of process_batch
    r_html_results,  \* html_results of process_batch
    r_articles,      \* articles of process_batch
    r_content_results, \* content_results of process_batch
    r_aggregated,    \* whether process_batch has called aggregate_editions
    r_batches,       \* batch_urls of every turn of the loop of run_batched
    r_sleeps,        \* the number of asyncio.sleep(1) calls of run_batched
    r_produced,      \* the edition lists run_batched has yielded, in order
    r_handed,        \* the arguments of the save_editions calls, in order
    r_write_failed,  \* whether a to_parquet call of this run has raised
    r_n_editions,    \* n_editions of run
    r_n_articles,    \* n_articles of run
    r_result         \* what run returned: (n_editions, n_articles); <<>> before it returns

runVars == <<r_all_urls, r_batch_size, r_sem, r_i, r_pc, r_tasks, r_metadata_list,
             r_html_results, r_articles, r_content_results, r_aggregated,
             r_batches, r_sleeps, r_produced, r_handed, r_write_failed,
             r_n_editions, r_n_articles, r_result>>

VARIABLES
    \* ---- MetadataParser.parse, one call ----
    mp_body,         \* the body of the response argument
    mp_pc,           \* "called" | "returned" | "raised"
    mp_result,       \* what the call ended with
    \* ---- GazetteCrawler.create_metadata_urls, one call ----
    u_start,         \* config.start_date, in days since DEFAULT_START_DATE
    u_end,           \* config.end_date, in days since DEFAULT_START_DATE
    u_pc,            \* "called" | "returned"
    u_urls           \* the list returned

pureVars == <<mp_body, mp_pc, mp_result, u_start, u_end, u_pc, u_urls>>

restVars == <<storeVars, runVars, pureVars>>

vars == <<fetchVars, faVars, dedupVars, parseVars, metaVars, aggVars, restVars>>

(***************************************************************************)
(* Bounds of the model                                                     *)
(***************************************************************************)
MaxRetriesArg == 3
MaxUrls == 2
MaxConcurrent == 2
MaxRetriesAll == 2
MaxDepth == 2
MaxArticles == 3
MaxNodes == 3
MaxItems == 1
MaxMetadata == 2
MaxPairs == 3
MaxSaveEditions == 2
MaxSaveArticles == 2
MaxRunUrls == 2
MaxBatchSize == 2
MaxDays == 20

(***************************************************************************)
(* Values                                                                  *)
(***************************************************************************)
None == [kind |-> "None"]
Response(url) == [kind |-> "Response", url |-> url]
Returned(v) == [ctl |-> "return", val |-> v]
Raised(exc, code) == [ctl |-> "raise", exc |-> exc, code |-> code]
Sleep == [ctl |-> "sleep"]

\* HTTP statuses a GET may end with (one 2xx, one 3xx, terminal 4xx,
\* the two retryable 4xx, two 5xx).
Statuses == {200, 304, 400, 404, 408, 429, 500, 503}

\* What one attempt of client.get can end with.
Outcomes ==
    [kind : {"status"}, code : Statuses]
        \cup [kind : {"timeout", "network", "unexpected"}, code : {0}]

(***************************************************************************)
(* HttpClient                                                              *)
(***************************************************************************)
\* _fetch_internal: client.get + raise_for_status
fetch_internal(url, o) ==
    IF o.kind = "status"
    THEN IF 200 <= o.code /\ o.code < 300
         THEN Returned(Response(url))
         ELSE Raised("HTTPStatusError", o.code)
    ELSE IF o.kind = "timeout" THEN Raised("TimeoutException", 0)
    ELSE IF o.kind = "network" THEN Raised("RequestError", 0)
    ELSE Raised("ValueError", 0)

should_retry_status_error_all(status_code) == TRUE

\* _should_retry_status_error
should_retry_status_error(status_code) ==
    IF 500 <= status_code /\ status_code < 600 THEN TRUE
    ELSE IF status_code \in {408, 429} THEN TRUE
    ELSE FALSE

\* body of the decorated _fetch_with_retry: the try/except around
\* _fetch_internal
fetch_with_retry_body(url, o) ==
    LET r == fetch_internal(url, o) IN
    IF r.ctl = "return" THEN r
    ELSE IF r.exc = "HTTPStatusError"
         THEN IF ~should_retry_status_error(r.code) THEN Returned(None) ELSE r
    ELSE IF r.exc \in {"TimeoutException", "RequestError"} THEN r
    ELSE Returned(None)

\* retry_if_exception_type((TimeoutException, RequestError, HTTPStatusError))
RetryCondition(r) ==
    r.ctl = "raise" /\ r.exc \in {"TimeoutException", "RequestError", "HTTPStatusError"}

stop_after_attempt_late(attempt_number, mr) == attempt_number > mr

\* stop_after_attempt(max_retries)
stop_after_attempt(attempt_number, mr) == attempt_number >= mr

\* tenacity's decision after attempt number attempt_number ended with r:
\* hand r on, sleep before the next attempt, or give up with RetryError
\* (reraise=False)
tenacity_after_attempt(attempt_number, r, mr) ==
    IF ~RetryCondition(r) THEN r
    ELSE IF stop_after_attempt(attempt_number, mr)
         THEN Raised("RetryError", 0)
         ELSE Sleep

fetch_outer_no_catch(t) == t

\* the try/except of fetch around the call of _fetch_with_retry
fetch_outer(t) ==
    IF t.ctl = "return" THEN t ELSE Returned(None)

\* HttpClient.fetch, one attempt: what the call does when the attempt with
\* number attempt_number ends with outcome o
fetch_attempt(url, attempt_number, o, mr) ==
    LET t == tenacity_after_attempt(attempt_number,
                                    fetch_with_retry_body(url, o), mr)
    IN IF t.ctl = "sleep" THEN t ELSE fetch_outer(t)

FetchIdle ==
    /\ f_max_retries = 0
    /\ f_attempt = 0
    /\ f_pc = "idle"
    /\ f_result = None
    /\ f_history = <<>>

DedupIdle ==
    /\ d_articles = <<>>
    /\ d_pc = "idle"
    /\ d_deduplicated = <<>>

ParseIdle ==
    /\ p_html = <<>>
    /\ p_edition_id = "idle"
    /\ p_pc = "idle"
    /\ p_articles = <<>>
    /\ p_unique = <<>>

MetaIdle ==
    /\ m_pc = "idle"
    /\ responses = <<>>
    /\ m_body = <<>>
    /\ all_metadata = <<>>
    /\ gazette_id_map = <<>>

AggIdle ==
    /\ a_metadata_list = <<>>
    /\ a_articles_with_content = <<>>
    /\ a_pc = "idle"
    /\ a_editions = <<>>

StoreIdle ==
    /\ s_files = <<>>
    /\ s_now = 0
    /\ s_partition_by = "idle"
    /\ s_editions = <<>>
    /\ s_pc = "idle"

RunIdle ==
    /\ r_all_urls = <<>>
    /\ r_batch_size = 0
    /\ r_sem = 0
    /\ r_i = 0
    /\ r_pc = "idle"
    /\ r_tasks = <<>>
    /\ r_metadata_list = <<>>
    /\ r_html_results = <<>>
    /\ r_articles = <<>>
    /\ r_content_results = <<>>
    /\ r_aggregated = FALSE
    /\ r_batches = <<>>
    /\ r_sleeps = 0
    /\ r_produced = <<>>
    /\ r_handed = <<>>
    /\ r_write_failed = FALSE
    /\ r_n_editions = 0
    /\ r_n_articles = 0
    /\ r_result = <<>>

PureIdle ==
    /\ mp_body = None
    /\ mp_pc = "idle"
    /\ mp_result = None
    /\ u_start = 0
    /\ u_end = 0
    /\ u_pc = "idle"
    /\ u_urls = <<>>

RestIdle ==
    /\ StoreIdle
    /\ RunIdle
    /\ PureIdle

(***************************************************************************)
(* ConcurrentHttpClient                                                    *)
(***************************************************************************)
\* default of HttpClient.fetch's max_retries parameter
FETCH_DEFAULT_MAX_RETRIES == 3

\* The number of attempts HttpClient.fetch is allowed in a task: core.clients
\* passes max_retries on, http.concurrent calls fetch(url, client) and so
\* gets the default.
InnerMaxRetries(im, m) ==
    IF im = "core.clients" THEN m ELSE FETCH_DEFAULT_MAX_RETRIES

\* What a replaced client.fetch (tests: fake_fetch) can end with.
StubResults(url) ==
    {Returned(Response(url)), Returned(None), Raised("RequestError", 0)}

FreshTask == [pc |-> "pending", attempt |-> 0, outer |-> 0, result |-> Returned(None)]

can_acquire_unbounded(value) == TRUE

can_acquire_above_one(value) == value > 1

\* asyncio.Semaphore: acquire goes through without waiting iff _value > 0
can_acquire(value) == value > 0

\* ConcurrentHttpClient.fetch_with_retry (http.concurrent), after the call
\* number `outer` (from 0) of client.fetch ended with r: return the response,
\* sleep and loop, or fall out of the loop with None. An exception of
\* client.fetch is not caught here.
fetch_with_retry_after(outer, r, m) ==
    IF r.ctl = "raise" THEN r
    ELSE IF r.val # None THEN r
    ELSE IF outer < m - 1 THEN Sleep
    ELSE Returned(None)

\* fetch_with_semaphore, after client.fetch ended with r: core.clients
\* returns it, http.concurrent goes through fetch_with_retry
task_after_fetch(im, outer, r, m) ==
    IF im = "core.clients" THEN r ELSE fetch_with_retry_after(outer, r, m)

gather_completion_order(tk, order) ==
    Returned([i \in 1..Len(order) |-> tk[order[i]].result])

gather_propagate(tk, order) ==
    IF \E i \in 1..Len(order) : tk[i].result.ctl = "raise"
    THEN Raised("RequestError", 0)
    ELSE Returned([i \in 1..Len(order) |-> tk[i].result])

\* asyncio.gather(*tasks, return_exceptions=True), once every task is done:
\* returns the tasks' results (values and exceptions alike) in the order of
\* the tasks, whatever the order they finished in
gather(tk, order) ==
    Returned([i \in 1..Len(order) |-> tk[i].result])

\* the loop of fetch_all over the gathered results: an exception becomes None
process_results(rs) ==
    [i \in 1..Len(rs) |-> IF rs[i].ctl = "raise" THEN None ELSE rs[i].val]

FetchAllIdle ==
    /\ impl = "idle"
    /\ base = "idle"
    /\ urls = <<>>
    /\ max_concurrent = 0
    /\ max_retries = 0
    /\ semaphore = 0
    /\ task = <<>>
    /\ requests = <<>>
    /\ completed = <<>>
    /\ fa_pc = "idle"
    /\ results = <<>>

\* the state right after fetch_all built its tasks: every URL of the list
\* has a pending task (URL i is the i-th URL of the caller)
FetchAllStart(n) ==
    /\ urls = [i \in 1..n |-> i]
    /\ semaphore = max_concurrent
    /\ task = [i \in 1..n |-> FreshTask]
    /\ requests = [i \in 1..n |-> 0]
    /\ completed = <<>>
    /\ fa_pc = "gather"
    /\ results = <<>>

InitFetchAll ==
    /\ RestIdle
    /\ FetchIdle
    /\ DedupIdle
    /\ ParseIdle
    /\ MetaIdle
    /\ AggIdle
    /\ impl \in {"http.concurrent", "core.clients"}
    /\ base \in {"HttpClient", "Stub"}
    /\ max_concurrent \in 1..MaxConcurrent
    /\ max_retries \in 1..MaxRetriesAll
    /\ \E n \in 0..MaxUrls : FetchAllStart(n)

\* the count of GETs after one more call of client.fetch issued a GET (a
\* replaced fetch issues none); the count stops at max_retries + 1
Issued(count, b) ==
    IF b = "HttpClient" /\ count <= max_retries THEN count + 1 ELSE count

FaConfig == <<impl, base, urls, max_concurrent, max_retries>>

NotFetchAll == <<fetchVars, dedupVars, parseVars, metaVars, aggVars, restVars>>

Finish_without_release(i, r) ==
    /\ task' = [task EXCEPT ![i].pc = "done", ![i].result = r]
    /\ completed' = Append(completed, i)
    /\ UNCHANGED <<semaphore, requests>>

Finish_release_unless_raised(i, r) ==
    /\ task' = [task EXCEPT ![i].pc = "done", ![i].result = r]
    /\ semaphore' = IF r.ctl = "raise" THEN semaphore ELSE semaphore + 1
    /\ completed' = Append(completed, i)
    /\ UNCHANGED requests

\* task i ends with r: leaves `async with`, releasing the semaphore
Finish(i, r) ==
    /\ task' = [task EXCEPT ![i].pc = "done", ![i].result = r]
    /\ semaphore' = semaphore + 1
    /\ completed' = Append(completed, i)
    /\ UNCHANGED requests

\* task i, after client.fetch ended with r
AfterFetch(i, r) ==
    LET w == task_after_fetch(impl, task[i].outer, r, max_retries) IN
    IF w.ctl = "sleep"
    THEN /\ task' = [task EXCEPT ![i].pc = "wrapsleep"]
         /\ UNCHANGED <<semaphore, completed, requests>>
    ELSE Finish(i, w)

\* a task enters `async with self.semaphore` and calls client.fetch, which
\* issues its first GET
Acquire ==
    \E i \in 1..Len(urls) :
        /\ fa_pc = "gather"
        /\ task[i].pc = "pending"
        /\ can_acquire(semaphore)
        /\ semaphore' = semaphore - 1
        /\ task' = [task EXCEPT ![i].pc = "fetching"]
        /\ requests' = [requests EXCEPT ![i] = Issued(@, base)]
        /\ UNCHANGED <<completed, fa_pc, results, FaConfig, NotFetchAll>>

\* the GET of a task ends with outcome o (base client HttpClient)
Respond ==
    \E i \in 1..Len(urls), o \in Outcomes :
        /\ fa_pc = "gather"
        /\ task[i].pc = "fetching"
        /\ base = "HttpClient"
        /\ LET a == task[i].attempt + 1
               t == fetch_attempt(urls[i], a, o, InnerMaxRetries(impl, max_retries))
           IN IF t.ctl = "sleep"
              THEN /\ task' = [task EXCEPT ![i].pc = "sleeping", ![i].attempt = a]
                   /\ UNCHANGED <<semaphore, completed, requests>>
              ELSE AfterFetch(i, t)
        /\ UNCHANGED <<fa_pc, results, FaConfig, NotFetchAll>>

\* the replaced client.fetch of a task ends with r (base client Stub)
StubRespond ==
    \E i \in 1..Len(urls) : \E r \in StubResults(urls[i]) :
        /\ fa_pc = "gather"
        /\ task[i].pc = "fetching"
        /\ base = "Stub"
        /\ AfterFetch(i, r)
        /\ UNCHANGED <<fa_pc, results, FaConfig, NotFetchAll>>

\* tenacity's backoff of a task ends: next attempt of the same fetch call
Wake ==
    \E i \in 1..Len(urls) :
        /\ fa_pc = "gather"
        /\ task[i].pc = "sleeping"
        /\ task' = [task EXCEPT ![i].pc = "fetching"]
        /\ requests' = [requests EXCEPT ![i] = Issued(@, base)]
        /\ UNCHANGED <<semaphore, completed, fa_pc, results, FaConfig, NotFetchAll>>

\* asyncio.sleep(retry_delay) of fetch_with_retry ends: next call of
\* client.fetch
WrapWake ==
    \E i \in 1..Len(urls) :
        /\ fa_pc = "gather"
        /\ task[i].pc = "wrapsleep"
        /\ task' = [task EXCEPT ![i].pc = "fetching", ![i].attempt = 0,
                                ![i].outer = @ + 1]
        /\ requests' = [requests EXCEPT ![i] = Issued(@, base)]
        /\ UNCHANGED <<semaphore, completed, fa_pc, results, FaConfig, NotFetchAll>>

\* every task is done: gather hands over, fetch_all converts and returns
Gather ==
    /\ fa_pc = "gather"
    /\ \A i \in 1..Len(urls) : task[i].pc = "done"
    /\ LET g == gather(task, completed) IN
          IF g.ctl = "raise"
          THEN fa_pc' = "raised" /\ UNCHANGED results
          ELSE fa_pc' = "returned" /\ results' = process_results(g.val)
    /\ UNCHANGED <<semaphore, task, requests, completed, FaConfig, NotFetchAll>>

NextFetchAll ==
    \/ Acquire
    \/ Respond
    \/ StubRespond
    \/ Wake
    \/ WrapWake
    \/ Gather

SpecFetchAll == InitFetchAll /\ [][NextFetchAll]_vars

\* The event loop runs every task that can go on, every GET ends and every
\* sleep is over after its delay: a step that stays possible is taken.
SpecFetchAllLive == SpecFetchAll /\ WF_vars(NextFetchAll)

(***************************************************************************)
(* Specification SpecFetch: one call HttpClient.fetch(url, client, m)      *)
(***************************************************************************)
\* the url argument of the call
TheUrl == 1

InitFetch ==
    /\ RestIdle
    /\ FetchAllIdle
    /\ DedupIdle
    /\ ParseIdle
    /\ MetaIdle
    /\ AggIdle
    /\ f_max_retries \in 1..MaxRetriesArg
    /\ f_attempt = 0
    /\ f_pc = "requesting"
    /\ f_result = None
    /\ f_history = <<>>

\* the GET of the current attempt ends with outcome o
FetchAttempt(o) ==
    /\ f_pc = "requesting"
    /\ LET a == f_attempt + 1
           t == fetch_attempt(TheUrl, a, o, f_max_retries)
       IN /\ f_attempt' = a
          /\ f_history' = Append(f_history, o)
          /\ f_pc' = IF t.ctl = "sleep" THEN "sleeping"
                     ELSE IF t.ctl = "return" THEN "returned" ELSE "raised"
          /\ f_result' = IF t.ctl = "return" THEN t.val ELSE f_result
    /\ UNCHANGED f_max_retries
    /\ UNCHANGED <<faVars, dedupVars, parseVars, metaVars, aggVars, restVars>>

\* the wait_exponential backoff ends, the next attempt issues its GET
FetchWake ==
    /\ f_pc = "sleeping"
    /\ f_pc' = "requesting"
    /\ UNCHANGED <<f_max_retries, f_attempt, f_result, f_history>>
    /\ UNCHANGED <<faVars, dedupVars, parseVars, metaVars, aggVars, restVars>>

NextFetch ==
    \/ \E o \in Outcomes : FetchAttempt(o)
    \/ FetchWake

SpecFetch == InitFetch /\ [][NextFetch]_vars

(***************************************************************************)
(* HtmlStructureParser.deduplicate_keep_deepest                            *)
(***************************************************************************)
ArticleIds == {"1", "2"}
Labels == {"A", "B"}
EditionIds == {"E1", "E2"}

\* hierarchy paths: the sequences of labels of length 0..MaxDepth
Paths == UNION {[1..k -> Labels] : k \in 0..MaxDepth}

\* models.ArticleMetadata; identifier (the link's identificador) is a number
ArticleMetadata(article_id, edition_id, hierarchy_path, identifier) ==
    [article_id |-> article_id, edition_id |-> edition_id,
     hierarchy_path |-> hierarchy_path, identifier |-> identifier]

\* ArticleMetadata.depth
depth(article) == Len(article.hierarchy_path)

replaces_or_equal(article, kept) == depth(article) >= depth(kept)

replaces_if_shallower(article, kept) == depth(article) < depth(kept)

\* the test of the replace-if-deeper rule
replaces(article, kept) == depth(article) > depth(kept)

\* deduplicate_keep_deepest: `unique` is a dict, here its keys in insertion
\* order and its mapping; the result is list(unique.values())
deduplicate_keep_deepest(articles) ==
    LET unique[k \in 0..Len(articles)] ==
            IF k = 0 THEN [keys |-> <<>>, val |-> [x \in {} |-> 0]]
            ELSE LET u == unique[k - 1]
                     article == articles[k]
                     key == article.article_id
                 IN IF key \in DOMAIN u.val
                    THEN IF replaces(article, u.val[key])
                         THEN [u EXCEPT !.val[key] = article]
                         ELSE u
                    ELSE [keys |-> Append(u.keys, key),
                          val |-> [x \in DOMAIN u.val \cup {key} |->
                                      IF x = key THEN article ELSE u.val[x]]]
        last == unique[Len(articles)]
    IN [i \in 1..Len(last.keys) |-> last.val[last.keys[i]]]

InitDedup ==
    /\ RestIdle
    /\ FetchIdle
    /\ FetchAllIdle
    /\ ParseIdle
    /\ MetaIdle
    /\ AggIdle
    /\ \E n \in 0..MaxArticles :
          d_articles \in [1..n -> {ArticleMetadata(a, "E1", h, 0) :
                                      a \in ArticleIds, h \in Paths}]
    /\ d_pc = "called"
    /\ d_deduplicated = <<>>

Deduplicate ==
    /\ d_pc = "called"
    /\ d_deduplicated' = deduplicate_keep_deepest(d_articles)
    /\ d_pc' = "returned"
    /\ UNCHANGED <<d_articles, fetchVars, faVars, parseVars, metaVars, aggVars, restVars>>

NextDedup == Deduplicate

SpecDedup == InitDedup /\ [][NextDedup]_vars

(***************************************************************************)
(* HtmlStructureParser.parse                                               *)
(*                                                                         *)
(* The navigation document: whether it has the root <ul id="tree">, and    *)
(* the <li> elements below it in document order. A folder is               *)
(* <li><span class="folder">label</span><ul>...</ul></li>, a leaf is        *)
(* <li><a class="linkMateria" data-materia-id=article_id                   *)
(* identificador=its position>...</a></li>; parent is the <li> whose <ul>  *)
(* holds the element, 0 for the root <ul>.                                 *)
(***************************************************************************)
Folder(parent, label) ==
    [parent |-> parent, kind |-> "folder", label |-> label, article_id |-> ""]
Leaf(parent, article_id) ==
    [parent |-> parent, kind |-> "leaf", label |-> "", article_id |-> article_id]

RECURSIVE Ancestors(_, _)
\* the <li> elements enclosing element n, and 0 for the root <ul>
Ancestors(nodes, n) ==
    IF n = 0 THEN {} ELSE {nodes[n].parent} \cup Ancestors(nodes, nodes[n].parent)

\* element lists that are documents: elements are numbered in document
\* order, and only a folder's <ul> holds elements
IsDocument(nodes) ==
    \A n \in 1..Len(nodes) :
        /\ nodes[n].parent < n
        /\ nodes[n].parent # 0 => nodes[nodes[n].parent].kind = "folder"
        /\ n > 1 => nodes[n].parent \in {n - 1} \cup Ancestors(nodes, n - 1)

Documents ==
    UNION {{nodes \in [1..k -> {Folder(q, l) : q \in 0..(k - 1), l \in Labels}
                               \cup {Leaf(q, a) : q \in 0..(k - 1), a \in ArticleIds}] :
                IsDocument(nodes)} : k \in 0..MaxNodes}

\* ul.css("li") for the <ul> of element f (0: the root <ul>): every <li>
\* below it, at any depth, in document order
css_li(nodes, f) ==
    LET F[k \in 0..Len(nodes)] ==
            IF k = 0 THEN <<>>
            ELSE IF f \in Ancestors(nodes, k) THEN Append(F[k - 1], k)
            ELSE F[k - 1]
    IN F[Len(nodes)]

RECURSIVE parse_node(_, _, _, _)
\* parse_node(li, path): the records it appends to `articles`
parse_node(nodes, edition_id, li, path) ==
    IF nodes[li].kind = "folder"
    THEN LET new_path == Append(path, nodes[li].label)
             sub == css_li(nodes, li)
             F[k \in 0..Len(sub)] ==
                 IF k = 0 THEN <<>>
                 ELSE F[k - 1] \o parse_node(nodes, edition_id, sub[k], new_path)
         IN F[Len(sub)]
    ELSE <<ArticleMetadata(nodes[li].article_id, edition_id, path, li)>>

\* HtmlStructureParser.parse
parse(html, edition_id) ==
    IF ~html.root THEN <<>>
    ELSE LET lis == css_li(html.nodes, 0)
             F[k \in 0..Len(lis)] ==
                 IF k = 0 THEN <<>>
                 ELSE F[k - 1] \o parse_node(html.nodes, edition_id, lis[k], <<>>)
         IN F[Len(lis)]

InitParse ==
    /\ RestIdle
    /\ FetchIdle
    /\ FetchAllIdle
    /\ DedupIdle
    /\ MetaIdle
    /\ AggIdle
    /\ p_html \in [root : BOOLEAN, nodes : Documents]
    /\ p_edition_id \in EditionIds
    /\ p_pc = "called"
    /\ p_articles = <<>>
    /\ p_unique = <<>>

Parse ==
    /\ p_pc = "called"
    /\ p_articles' = parse(p_html, p_edition_id)
    /\ p_pc' = "returned"
    /\ UNCHANGED <<p_html, p_edition_id, p_unique>>
    /\ UNCHANGED <<fetchVars, faVars, dedupVars, metaVars, aggVars, restVars>>

\* parse_articles_from_html on the list parse returned for a page:
\* deduplicate_keep_deepest(all_articles)
DeduplicateParsed ==
    /\ p_pc = "returned"
    /\ p_unique' = deduplicate_keep_deepest(p_articles)
    /\ p_pc' = "deduplicated"
    /\ UNCHANGED <<p_html, p_edition_id, p_articles>>
    /\ UNCHANGED <<fetchVars, faVars, dedupVars, metaVars, aggVars, restVars>>

NextParse ==
    \/ Parse
    \/ DeduplicateParsed

SpecParse == InitParse /\ [][NextParse]_vars

(***************************************************************************)
(* MetadataParser.parse and GazetteCrawler.fetch_metadata_batch            *)
(***************************************************************************)
\* models.GazetteMetadata (the fields the pipeline reads)
GazetteMetadata(edition_id, publication_date, supplement) ==
    [edition_id |-> edition_id, publication_date |-> publication_date,
     supplement |-> supplement]

pdf_url(edition_id) == <<"pdf_diario", edition_id>>

\* An item of "itens": its id, and whether its numbers convert (int(...) of a
\* malformed "numero" raises ValueError).
\* "suplemento" is absent from the items of the pipeline.
Items == [id : EditionIds, converts : BOOLEAN,
          suplemento : {[type |-> "absent", v |-> ""]}]

\* The JSON values of an item's "suplemento": the Python type
\* response.json() gives them (absent key, null, bool, str, int, float,
\* list) and, in v, the JSON literal (for a str, its characters).
Supplements ==
    {[type |-> "absent", v |-> ""], [type |-> "null", v |-> ""],
     [type |-> "list", v |-> ""]}
        \cup [type : {"bool"}, v : {"true", "false"}]
        \cup [type : {"str"},
              v : {"1", "0", "true", "True", "TRUE", "yes", "YES", "false", "no", ""}]
        \cup [type : {"int"}, v : {"0", "1", "2"}]
        \cup [type : {"float"}, v : {"0.0", "1.0", "0.5"}]

\* str.lower()
lower(str) ==
    CASE str \in {"True", "TRUE"} -> "true"
      [] str = "YES" -> "yes"
      [] OTHER -> str

\* supplement_bool of the item loop
supplement_bool(supplement) ==
    IF supplement.type \in {"absent", "null"} THEN FALSE
    ELSE IF supplement.type = "bool" THEN supplement.v = "true"
    ELSE IF supplement.type = "str" THEN lower(supplement.v) \in {"true", "1", "yes"}
    ELSE IF supplement.type = "int" THEN supplement.v # "0"
    ELSE FALSE

\* The body of a metadata response for the date `data`:
\*   "invalid"  not JSON                     "empty"  a falsy JSON value
\*   "array"    a non-empty JSON array       "erro"   an object with "erro"
\*   "object"   an object with "data" and "itens"
\*   "string", "number"  a non-empty JSON string, a non-zero JSON number
\*   "itens_number"      an object whose "itens" is a non-zero number
Bodies(data) ==
    [json : {"invalid", "empty", "array", "erro"}, data : {data}, itens : {<<>>}]
        \cup [json : {"object"}, data : {data},
              itens : UNION {[1..k -> Items] : k \in 0..MaxItems}]

\* MetadataParser.parse
MetadataParser_parse(body) ==
    IF body.json = "invalid" THEN Returned(<<>>)
    ELSE IF body.json = "empty" THEN Returned(<<>>)
    ELSE IF body.json \in {"array", "string", "number"}
    THEN Raised("AttributeError", 0)
    ELSE IF body.json = "erro" THEN Returned(<<>>)
    ELSE IF body.json = "itens_number" THEN Raised("TypeError", 0)
    ELSE IF body.itens = <<>> THEN Returned(<<>>)
    ELSE LET metadata_list[k \in 0..Len(body.itens)] ==
                 IF k = 0 THEN <<>>
                 ELSE IF body.itens[k].converts
                      THEN Append(metadata_list[k - 1],
                                  GazetteMetadata(body.itens[k].id, body.data,
                                      supplement_bool(body.itens[k].suplemento)))
                      ELSE metadata_list[k - 1]
         IN Returned(metadata_list[Len(body.itens)])

NoMetadata == [ctl |-> "return", all_metadata |-> <<>>, ids |-> {}]

metadata_step_no_except(acc, response, body) ==
    IF acc.ctl = "raise" \/ response = None THEN acc
    ELSE LET r == MetadataParser_parse(body) IN
         IF r.ctl = "raise" THEN [acc EXCEPT !.ctl = "raise"]
         ELSE [ctl |-> "return",
               all_metadata |-> acc.all_metadata \o r.val,
               ids |-> acc.ids \cup {r.val[j].edition_id : j \in 1..Len(r.val)}]

\* one iteration of the loop of fetch_metadata_batch over the responses
metadata_step(acc, response, body) ==
    IF acc.ctl = "raise" \/ response = None THEN acc
    ELSE LET r == MetadataParser_parse(body) IN
         IF r.ctl = "raise" THEN acc
         ELSE [ctl |-> "return",
               all_metadata |-> acc.all_metadata \o r.val,
               ids |-> acc.ids \cup {r.val[j].edition_id : j \in 1..Len(r.val)}]

\* the loop of fetch_metadata_batch over the responses
metadata_loop(rs, bodies) ==
    LET F[k \in 0..Len(rs)] ==
            IF k = 0 THEN NoMetadata
            ELSE metadata_step(F[k - 1], rs[k], bodies[k])
    IN F[Len(rs)]

\* fetch_metadata_batch is called by the crawler with the clients its
\* constructor built and fetch_all's default max_retries
FETCH_ALL_DEFAULT_MAX_RETRIES == 3

InitPhase1 ==
    /\ RestIdle
    /\ FetchIdle
    /\ DedupIdle
    /\ ParseIdle
    /\ AggIdle
    /\ impl = "http.concurrent"
    /\ base = "HttpClient"
    /\ max_concurrent \in 1..MaxConcurrent
    /\ max_retries = FETCH_ALL_DEFAULT_MAX_RETRIES
    /\ \E n \in 0..MaxUrls : FetchAllStart(n)
    /\ m_pc = "fetching"
    /\ responses = <<>>
    /\ m_body = <<>>
    /\ all_metadata = <<>>
    /\ gazette_id_map = <<>>

\* `responses = await fetch_all(...)`: the list reaches fetch_metadata_batch,
\* the frame of fetch_all (its tasks) is gone
ReceiveResponses ==
    /\ m_pc = "fetching"
    /\ fa_pc = "returned"
    /\ responses' = results
    /\ m_pc' = "parsing"
    /\ task' = <<>>
    /\ requests' = <<>>
    /\ completed' = <<>>
    /\ results' = <<>>
    /\ fa_pc' = "idle"
    /\ UNCHANGED <<semaphore, FaConfig, m_body, all_metadata, gazette_id_map>>
    /\ UNCHANGED <<fetchVars, dedupVars, parseVars, aggVars, restVars>>

\* the loop over the responses and the return; the bodies are whatever the
\* portal sent
ParseMetadata ==
    /\ m_pc = "parsing"
    /\ \E bodies \in [1..Len(responses) -> UNION {Bodies(u) : u \in 1..Len(responses)}] :
          /\ \A i \in 1..Len(responses) : bodies[i] \in Bodies(urls[i])
          /\ m_body' = bodies
          /\ LET acc == metadata_loop(responses, bodies) IN
                /\ m_pc' = IF acc.ctl = "raise" THEN "raised" ELSE "returned"
                /\ all_metadata' = acc.all_metadata
                /\ gazette_id_map' = [id \in acc.ids |-> pdf_url(id)]
    /\ UNCHANGED <<responses, faVars>>
    /\ UNCHANGED <<fetchVars, dedupVars, parseVars, aggVars, restVars>>

NextPhase1 ==
    \/ Acquire
    \/ Respond
    \/ Wake
    \/ WrapWake
    \/ Gather
    \/ ReceiveResponses
    \/ ParseMetadata

SpecPhase1 == InitPhase1 /\ [][NextPhase1]_vars

(***************************************************************************)
(* MetadataParser.parse, one call                                          *)
(***************************************************************************)
\* the bodies of the response argument: every JSON shape, and objects whose
\* items have any "suplemento"
ParseBodies ==
    [json : {"invalid", "empty", "array", "string", "number", "erro", "itens_number"},
     data : {"2024-01-03"}, itens : {<<>>}]
        \cup [json : {"object"}, data : {"2024-01-03", "unknown"},
              itens : UNION {[1..k -> [id : EditionIds, converts : BOOLEAN,
                                       suplemento : Supplements]] :
                                k \in 0..MaxItems}]

InitMetadataParse ==
    /\ FetchIdle
    /\ FetchAllIdle
    /\ DedupIdle
    /\ ParseIdle
    /\ MetaIdle
    /\ AggIdle
    /\ StoreIdle
    /\ RunIdle
    /\ mp_body \in ParseBodies
    /\ mp_pc = "called"
    /\ mp_result = None
    /\ u_start = 0
    /\ u_end = 0
    /\ u_pc = "idle"
    /\ u_urls = <<>>

\* one call MetadataParser.parse(response)
ParseBody ==
    /\ mp_pc = "called"
    /\ mp_result' = MetadataParser_parse(mp_body)
    /\ mp_pc' = IF MetadataParser_parse(mp_body).ctl = "raise"
                THEN "raised" ELSE "returned"
    /\ UNCHANGED <<mp_body, u_start, u_end, u_pc, u_urls>>
    /\ UNCHANGED <<fetchVars, faVars, dedupVars, parseVars, metaVars, aggVars,
                   storeVars, runVars>>

NextMetadataParse == ParseBody

SpecMetadataParse == InitMetadataParse /\ [][NextMetadataParse]_vars

(***************************************************************************)
(* DataProcessor.aggregate_editions                                        *)
(***************************************************************************)
PublicationDates == {"2024-01-03", "2024-01-04"}

\* models.Article
Article(metadata, content) == [metadata |-> metadata, content |-> content]

\* models.GazetteEdition
GazetteEdition(metadata, articles) == [metadata |-> metadata, articles |-> articles]

\* A dict: its keys in insertion order and its mapping.
EmptyDict == [keys |-> <<>>, val |-> [x \in {} |-> 0]]
DictSet(d, key, value) ==
    [keys |-> IF key \in DOMAIN d.val THEN d.keys ELSE Append(d.keys, key),
     val |-> [x \in DOMAIN d.val \cup {key} |-> IF x = key THEN value ELSE d.val[x]]]

\* metadata_by_id = {metadata.edition_id: metadata for metadata in metadata_list}
metadata_by_id_of(metadata_list) ==
    LET F[k \in 0..Len(metadata_list)] ==
            IF k = 0 THEN EmptyDict
            ELSE DictSet(F[k - 1], metadata_list[k].edition_id, metadata_list[k])
    IN F[Len(metadata_list)]

articles_by_edition_attach_unknown(articles_with_content, metadata_by_id) ==
    LET F[k \in 0..Len(articles_with_content)] ==
            IF k = 0 THEN EmptyDict
            ELSE LET item == articles_with_content[k]
                     article == Article(item.article_metadata, item.content)
                     edition_id ==
                         IF item.article_metadata.edition_id \in DOMAIN metadata_by_id.val
                            \/ metadata_by_id.keys = <<>>
                         THEN item.article_metadata.edition_id
                         ELSE metadata_by_id.keys[1]
                 IN IF edition_id \notin DOMAIN metadata_by_id.val THEN F[k - 1]
                    ELSE IF edition_id \notin DOMAIN F[k - 1].val
                         THEN DictSet(F[k - 1], edition_id, <<article>>)
                         ELSE DictSet(F[k - 1], edition_id,
                                      Append(F[k - 1].val[edition_id], article))
    IN F[Len(articles_with_content)]

\* the grouping loop: articles_by_edition
articles_by_edition_of(articles_with_content, metadata_by_id) ==
    LET F[k \in 0..Len(articles_with_content)] ==
            IF k = 0 THEN EmptyDict
            ELSE LET item == articles_with_content[k]
                     edition_id == item.article_metadata.edition_id
                     article == Article(item.article_metadata, item.content)
                 IN IF edition_id \notin DOMAIN metadata_by_id.val THEN F[k - 1]
                    ELSE IF edition_id \notin DOMAIN F[k - 1].val
                         THEN DictSet(F[k - 1], edition_id, <<article>>)
                         ELSE DictSet(F[k - 1], edition_id,
                                      Append(F[k - 1].val[edition_id], article))
    IN F[Len(articles_with_content)]

build_editions_with_articles_only(metadata_by_id, articles_by_edition) ==
    [i \in 1..Len(articles_by_edition.keys) |->
        GazetteEdition(metadata_by_id.val[articles_by_edition.keys[i]],
                       articles_by_edition.val[articles_by_edition.keys[i]])]

\* the construction loop: one GazetteEdition per item of metadata_by_id
build_editions(metadata_by_id, articles_by_edition) ==
    [i \in 1..Len(metadata_by_id.keys) |->
        LET edition_id == metadata_by_id.keys[i] IN
        GazetteEdition(metadata_by_id.val[edition_id],
                       IF edition_id \in DOMAIN articles_by_edition.val
                       THEN articles_by_edition.val[edition_id] ELSE <<>>)]

\* DataProcessor.aggregate_editions
aggregate_editions(metadata_list, articles_with_content) ==
    LET metadata_by_id == metadata_by_id_of(metadata_list)
    IN build_editions(metadata_by_id,
                      articles_by_edition_of(articles_with_content, metadata_by_id))

InitAggregate ==
    /\ RestIdle
    /\ FetchIdle
    /\ FetchAllIdle
    /\ DedupIdle
    /\ ParseIdle
    /\ MetaIdle
    /\ \E n \in 0..MaxMetadata :
          a_metadata_list \in [1..n -> {GazetteMetadata(e, d, FALSE) :
                                           e \in EditionIds, d \in PublicationDates}]
    /\ \E n \in 0..MaxPairs :
          a_articles_with_content \in
              [1..n -> {[article_metadata |-> ArticleMetadata(a, e, <<>>, 0),
                         content |-> "html"] : a \in ArticleIds, e \in EditionIds}]
    /\ a_pc = "called"
    /\ a_editions = <<>>

Aggregate ==
    /\ a_pc = "called"
    /\ a_editions' = aggregate_editions(a_metadata_list, a_articles_with_content)
    /\ a_pc' = "returned"
    /\ UNCHANGED <<a_metadata_list, a_articles_with_content>>
    /\ UNCHANGED <<fetchVars, faVars, dedupVars, parseVars, metaVars, restVars>>

NextAggregate == Aggregate

SpecAggregate == InitAggregate /\ [][NextAggregate]_vars

(***************************************************************************)
(* ParquetStorage.save_editions                                            *)
(***************************************************************************)
\* models.ArticleContent; raw_content is a str or bytes of `size` units, of
\* which `undecodable` are bytes that are not UTF-8 (none in a str)
ArticleContent(raw_content, content_type) ==
    [raw_content |-> raw_content, content_type |-> content_type]

RawContents ==
    {[type |-> "str", size |-> 500, undecodable |-> 0],
     [type |-> "str", size |-> 3000, undecodable |-> 0],
     [type |-> "bytes", size |-> 3000, undecodable |-> 1]}

Contents == {ArticleContent(c, "html") : c \in RawContents}

\* the dates a portal can send as "data": two days of one month, and the
\* parser's default when the field is missing
StorageDates == PublicationDates \cup {"unknown"}

\* pandas groupby('publication_date') yields its groups in sorted key order
SortedDates == <<"2024-01-03", "2024-01-04", "unknown">>

\* datetime.strptime(publication_date, "%Y-%m-%d").date(); None: ValueError
strptime(publication_date) ==
    CASE publication_date = "2024-01-03" -> [year |-> 2024, month |-> 1, day |-> 3]
      [] publication_date = "2024-01-04" -> [year |-> 2024, month |-> 1, day |-> 4]
      [] OTHER -> None

\* datetime.now().date() in _get_partition_path
Today == [year |-> 2026, month |-> 11, day |-> 5]

\* ParquetStorage._get_partition_path
get_partition_path(publication_date, partition_by) ==
    LET date_obj == strptime(publication_date) IN
    IF date_obj = None THEN <<Today.year, Today.month, Today.day>>
    ELSE IF partition_by = "day" THEN <<date_obj.year, date_obj.month, date_obj.day>>
    ELSE IF partition_by = "month" THEN <<date_obj.year, date_obj.month>>
    ELSE <<date_obj.year>>

\* ParquetStorage._generate_edition_hash: md5 of "id_date_count"
generate_edition_hash(edition) ==
    [md5 |-> <<edition.metadata.edition_id, edition.metadata.publication_date,
               Len(edition.articles)>>]

\* ParquetStorage._editions_to_dataframe, with the batch_id column
editions_to_dataframe(editions, batch_id) ==
    [i \in 1..Len(editions) |->
        [edition_id |-> editions[i].metadata.edition_id,
         publication_date |-> editions[i].metadata.publication_date,
         total_articles |-> Len(editions[i].articles),
         edition_hash |-> generate_edition_hash(editions[i]),
         batch_id |-> batch_id]]

\* raw_content.decode('utf-8', errors='ignore') or str(raw_content), and the
\* content_data of the row
content_data_of(content) ==
    LET raw == content.raw_content
        decoded == IF raw.type = "bytes" THEN raw.size - raw.undecodable ELSE raw.size
    IN [raw_content |-> [type |-> "str", size |-> decoded, undecodable |-> 0],
        content_type |-> content.content_type,
        content_size |-> decoded]

\* ParquetStorage._articles_to_dataframe, with the batch_id column
articles_to_dataframe(editions, batch_id) ==
    LET rows_of(edition) ==
            [j \in 1..Len(edition.articles) |->
                [article_id |-> edition.articles[j].metadata.article_id,
                 edition_id |-> edition.articles[j].metadata.edition_id,
                 edition_hash |-> generate_edition_hash(edition),
                 publication_date |-> edition.metadata.publication_date,
                 content_data |-> content_data_of(edition.articles[j].content),
                 batch_id |-> batch_id]]
        F[k \in 0..Len(editions)] ==
            IF k = 0 THEN <<>> ELSE F[k - 1] \o rows_of(editions[k])
    IN F[Len(editions)]

\* the rows _save_edition_article_relationship builds
relationship_data(editions, batch_id) ==
    LET rows_of(edition) ==
            [j \in 1..Len(edition.articles) |->
                [edition_id |-> edition.metadata.edition_id,
                 article_id |-> edition.articles[j].metadata.article_id,
                 edition_hash |-> generate_edition_hash(edition),
                 publication_date |-> edition.metadata.publication_date,
                 batch_id |-> batch_id]]
        F[k \in 0..Len(editions)] ==
            IF k = 0 THEN <<>> ELSE F[k - 1] \o rows_of(editions[k])
    IN F[Len(editions)]

\* the file one group of the articles is written to
articles_path(publication_date, partition_by, timestamp) ==
    <<"articles", get_partition_path(publication_date, partition_by), timestamp>>

\* the to_parquet calls of save_editions, in order: the editions, the groups
\* of the articles by publication_date, the relationships
parquet_writes(editions, timestamp, partition_by) ==
    LET batch_id == <<"batch", timestamp>>
        articles_df == articles_to_dataframe(editions, batch_id)
        relationship_df == relationship_data(editions, batch_id)
        group_df(d) == SelectSeq(articles_df, LAMBDA row : row.publication_date = d)
        G[k \in 0..Len(SortedDates)] ==
            IF k = 0 THEN <<>>
            ELSE IF group_df(SortedDates[k]) = <<>> THEN G[k - 1]
            ELSE Append(G[k - 1],
                        [path |-> articles_path(SortedDates[k], partition_by, timestamp),
                         rows |-> group_df(SortedDates[k])])
    IN <<[path |-> <<"gazettes", timestamp>>,
          rows |-> editions_to_dataframe(editions, batch_id)]>>
       \o G[Len(SortedDates)]
       \o (IF relationship_df = <<>> THEN <<>>
           ELSE <<[path |-> <<"relationships", timestamp>>, rows |-> relationship_df]>>)

\* DataFrame.to_parquet(path): the file is created or replaced
to_parquet(files, path, rows) ==
    [p \in DOMAIN files \cup {path} |-> IF p = path THEN rows ELSE files[p]]

save_except_swallow(r) == [r EXCEPT !.ctl = "return"]

\* `except Exception as e: logger.error(...); raise` of save_editions
save_except(r) == r

\* ParquetStorage.save_editions when the to_parquet call number `fail` raises
\* (0: none does): the files afterwards, and whether the call raises
save_editions(files, editions, timestamp, partition_by, fail) ==
    IF editions = <<>> THEN [files |-> files, ctl |-> "return"]
    ELSE LET ws == parquet_writes(editions, timestamp, partition_by)
             F[k \in 0..Len(ws)] ==
                 IF k = 0 THEN [files |-> files, ctl |-> "return"]
                 ELSE IF F[k - 1].ctl = "raise" \/ k = fail
                      THEN [F[k - 1] EXCEPT !.ctl = "raise"]
                      ELSE [files |-> to_parquet(F[k - 1].files, ws[k].path, ws[k].rows),
                            ctl |-> "return"]
         IN save_except(F[Len(ws)])

NoFiles == [p \in {} |-> <<>>]

\* the edition lists the pipeline hands over: distinct edition_ids, every
\* article under the edition of its record, article_ids unique in the batch
EditionLists ==
    LET content_lists ==
            UNION {[1..n -> Contents] : n \in 0..MaxSaveArticles}
        edition(e, d, cs) ==
            GazetteEdition(GazetteMetadata(e, d, FALSE),
                           [j \in 1..Len(cs) |->
                               Article(ArticleMetadata(<<e, j>>, e, <<>>, j), cs[j])])
        Editions == {edition(e, d, cs) : e \in EditionIds, d \in StorageDates,
                                          cs \in content_lists}
    IN {es \in UNION {[1..n -> Editions] : n \in 0..MaxSaveEditions} :
           \A i, j \in 1..Len(es) :
               i # j => es[i].metadata.edition_id # es[j].metadata.edition_id}

InitSave ==
    /\ FetchIdle
    /\ FetchAllIdle
    /\ DedupIdle
    /\ ParseIdle
    /\ MetaIdle
    /\ AggIdle
    /\ s_files = NoFiles
    /\ s_now = 1
    /\ s_partition_by \in {"day", "month", "year"}
    /\ s_editions \in EditionLists
    /\ s_pc = "called"
    /\ RunIdle
    /\ PureIdle

\* one call save_editions(editions); the to_parquet call number `fail`
\* raises (disk full, no permission), 0: none does
SaveEditions ==
    /\ s_pc = "called"
    /\ \E fail \in 0..Len(parquet_writes(s_editions, s_now, s_partition_by)) :
          LET r == save_editions(s_files, s_editions, s_now, s_partition_by, fail)
          IN /\ s_files' = r.files
             /\ s_pc' = IF r.ctl = "raise" THEN "raised" ELSE "returned"
    /\ UNCHANGED <<s_now, s_partition_by, s_editions>>
    /\ UNCHANGED <<fetchVars, faVars, dedupVars, parseVars, metaVars, aggVars, runVars,
                   pureVars>>

NextSave == SaveEditions

SpecSave == InitSave /\ [][NextSave]_vars

(***************************************************************************)
(* GazetteCrawler.process_batch, run_batched and run                       *)
(***************************************************************************)
\* the "data" field the portal answers for metadata URL number url
data_of(url) == SortedDates[((url - 1) % Len(SortedDates)) + 1]

\* the metadata bodies of a run: an error object, or an object with at most
\* one item, which converts
RunBodies(url) ==
    {b \in Bodies(data_of(url)) :
        /\ b.json \in {"erro", "object"}
        /\ Len(b.itens) <= 1
        /\ \A k \in 1..Len(b.itens) : b.itens[k].converts}

\* the navigation documents of a run: without the root <ul>, empty, one
\* link, one link in a folder
RunDocuments ==
    {[root |-> FALSE, nodes |-> <<>>], [root |-> TRUE, nodes |-> <<>>],
     [root |-> TRUE, nodes |-> <<Folder(0, "A"), Leaf(1, "1")>>]}
        \cup {[root |-> TRUE, nodes |-> <<Leaf(0, a)>>] : a \in ArticleIds}

\* the content responses of a run for a URL: JSON that does not parse, and
\* a page; the text is the one the portal keeps at that URL
ContentBodies(url) ==
    {[content_type |-> "application/json", valid |-> FALSE,
      text |-> [type |-> "str", size |-> 500, undecodable |-> 0, at |-> url]],
     [content_type |-> "text/html", valid |-> TRUE,
      text |-> [type |-> "str", size |-> 500, undecodable |-> 0, at |-> url]]}

\* ContentParser.parse: the ArticleContent, or None when reading the body
\* raised
ContentParser_parse(body) ==
    IF body.content_type = "application/pdf" THEN ArticleContent(body.text, "pdf")
    ELSE IF body.content_type = "application/json"
    THEN IF body.valid THEN ArticleContent(body.text, "html") ELSE None
    ELSE IF body.content_type = "text/html" THEN ArticleContent(body.text, "html")
    ELSE ArticleContent(body.text, "text")

batch_urls_overlapping(all_urls, i, batch_size) ==
    SubSeq(all_urls, i + 1,
           IF i + batch_size + 1 < Len(all_urls) THEN i + batch_size + 1
           ELSE Len(all_urls))

\* batch_urls = all_urls[i : i + batch_size]
batch_urls_of(all_urls, i, batch_size) ==
    SubSeq(all_urls, i + 1,
           IF i + batch_size < Len(all_urls) THEN i + batch_size ELSE Len(all_urls))

\* batch_num of run_batched
batch_num_of(i, batch_size) == (i \div batch_size) + 1

\* the tasks fetch_all builds for the URLs of phase `phase`
NewTasks(batch, phase, task_urls) ==
    [k \in 1..Len(task_urls) |->
        [batch |-> batch, phase |-> phase, key |-> k, url |-> task_urls[k],
         st |-> "pending", res |-> None]]

\* the results of the tasks of a phase, in task order
ResultsOf(tasks, phase) ==
    LET ts == SelectSeq(tasks, LAMBDA t : t.phase = phase)
    IN [k \in 1..Len(ts) |-> ts[k].res]

fetch_all_returns_once_started(tasks, phase) ==
    \A k \in 1..Len(tasks) : tasks[k].phase = phase => tasks[k].st # "pending"

\* `await asyncio.gather(*tasks)` of fetch_all is over: every task is done
fetch_all_returns(tasks, phase) ==
    \A k \in 1..Len(tasks) : tasks[k].phase = phase => tasks[k].st = "done"

\* the responses are consumed: the frame of fetch_all is left
Consumed(tasks) == [k \in 1..Len(tasks) |-> [tasks[k] EXCEPT !.res = None]]

\* fetch_metadata_batch after fetch_all, on the bodies received
metadata_of(bodies) ==
    LET rs == [k \in 1..Len(bodies) |-> IF bodies[k] = None THEN None ELSE Response(k)]
    IN metadata_loop(rs, bodies).all_metadata

html_results_of_compacted(metadata_list, htmls) ==
    LET hs == SelectSeq(htmls, LAMBDA h : h # None)
    IN [k \in 1..Len(hs) |-> [edition_id |-> metadata_list[k].edition_id,
                              html |-> hs[k], url |-> hs[k].url]]

\* fetch_structure_batch after fetch_all: html_results
html_results_of(metadata_list, htmls) ==
    LET F[k \in 0..Len(metadata_list)] ==
            IF k = 0 THEN <<>>
            ELSE IF htmls[k] = None THEN F[k - 1]
            ELSE Append(F[k - 1], [edition_id |-> metadata_list[k].edition_id,
                                   html |-> htmls[k], url |-> htmls[k].url])
    IN F[Len(metadata_list)]

parse_articles_from_html_per_edition(html_results) ==
    LET all_articles[k \in 0..Len(html_results)] ==
            IF k = 0 THEN <<>>
            ELSE all_articles[k - 1]
                     \o deduplicate_keep_deepest(
                            parse(html_results[k].html, html_results[k].edition_id))
    IN all_articles[Len(html_results)]

\* parse_articles_from_html
parse_articles_from_html(html_results) ==
    LET all_articles[k \in 0..Len(html_results)] ==
            IF k = 0 THEN <<>>
            ELSE all_articles[k - 1]
                     \o parse(html_results[k].html, html_results[k].edition_id)
    IN deduplicate_keep_deepest(all_articles[Len(html_results)])

\* fetch_content_batch after fetch_all: content_results
content_results_of(articles, bodies) ==
    LET F[k \in 0..Len(articles)] ==
            IF k = 0 THEN <<>>
            ELSE IF bodies[k] = None THEN F[k - 1]
            ELSE IF ContentParser_parse(bodies[k]) = None THEN F[k - 1]
            ELSE Append(F[k - 1], [article_metadata |-> articles[k],
                                   content |-> ContentParser_parse(bodies[k])])
    IN F[Len(articles)]

\* sum([len(g.articles) for g in batch])
sum_articles(batch) ==
    LET F[k \in 0..Len(batch)] ==
            IF k = 0 THEN 0 ELSE F[k - 1] + Len(batch[k].articles)
    IN F[Len(batch)]

run_totals_per_batch(n_editions, n_articles, batch) ==
    <<n_editions + 1, n_articles + sum_articles(batch)>>

\* n_editions += len(batch); n_articles += sum(...)
run_totals(n_editions, n_articles, batch) ==
    <<n_editions + Len(batch), n_articles + sum_articles(batch)>>

InitRun ==
    /\ FetchIdle
    /\ FetchAllIdle
    /\ DedupIdle
    /\ ParseIdle
    /\ MetaIdle
    /\ AggIdle
    /\ PureIdle
    /\ s_files = NoFiles
    /\ s_now = 1
    /\ s_partition_by = "day"
    /\ s_editions = <<>>
    /\ s_pc = "idle"
    /\ \E n \in 0..MaxRunUrls : r_all_urls = [k \in 1..n |-> k]
    /\ r_batch_size \in 1..MaxBatchSize
    /\ r_sem \in 1..MaxConcurrent
    /\ r_i = 0
    /\ r_pc = "loop"
    /\ r_tasks = <<>>
    /\ r_metadata_list = <<>>
    /\ r_html_results = <<>>
    /\ r_articles = <<>>
    /\ r_content_results = <<>>
    /\ r_aggregated = FALSE
    /\ r_batches = <<>>
    /\ r_sleeps = 0
    /\ r_produced = <<>>
    /\ r_handed = <<>>
    /\ r_write_failed = FALSE
    /\ r_n_editions = 0
    /\ r_n_articles = 0
    /\ r_result = <<>>

NotRun == <<fetchVars, faVars, dedupVars, parseVars, metaVars, aggVars, pureVars>>

\* process_batch returns batch_editions and run_batched yields it
Yield(batch_editions) ==
    /\ r_produced' = Append(r_produced, batch_editions)
    /\ r_pc' = "yield"

short_circuits_never(phase_result) == FALSE

\* `if not metadata_list: return []`, and the same on html_results and
\* articles
short_circuits(phase_result) == phase_result = <<>>

pauses_always(i, batch_size, total_urls) == TRUE

\* `if i + self.config.batch_size < total_urls`
pauses(i, batch_size, total_urls) == i + batch_size < total_urls

\* run_batched enters its loop body: process_batch calls
\* fetch_metadata_batch, which calls fetch_all on the URLs of the batch
StartBatch ==
    /\ r_pc = "loop"
    /\ r_i < Len(r_all_urls)
    /\ r_tasks' = NewTasks(batch_num_of(r_i, r_batch_size), 1,
                           batch_urls_of(r_all_urls, r_i, r_batch_size))
    /\ r_batches' = Append(r_batches, batch_urls_of(r_all_urls, r_i, r_batch_size))
    /\ r_pc' = "phase1"
    /\ r_metadata_list' = <<>>
    /\ r_html_results' = <<>>
    /\ r_articles' = <<>>
    /\ r_content_results' = <<>>
    /\ r_aggregated' = FALSE
    /\ UNCHANGED <<r_all_urls, r_batch_size, r_sem, r_i, r_sleeps, r_produced,
                   r_handed, r_write_failed, r_n_editions, r_n_articles, r_result>>
    /\ UNCHANGED <<storeVars, NotRun>>

\* a fetch task enters `async with self.semaphore` and issues its request
RunAcquire ==
    \E k \in 1..Len(r_tasks) :
        /\ r_tasks[k].st = "pending"
        /\ can_acquire(r_sem)
        /\ r_sem' = r_sem - 1
        /\ r_tasks' = [r_tasks EXCEPT ![k].st = "fetching"]
        /\ UNCHANGED <<r_all_urls, r_batch_size, r_i, r_pc, r_metadata_list,
                       r_html_results, r_articles, r_content_results, r_aggregated,
                       r_batches, r_sleeps, r_produced, r_handed, r_write_failed,
                       r_n_editions, r_n_articles, r_result>>
        /\ UNCHANGED <<storeVars, NotRun>>

\* what the fetch of task t can end with: None, or the response of its URL
\* with a body
Bodies_of(t) ==
    {None} \cup
    (IF t.phase = 1 THEN RunBodies(t.url)
     ELSE IF t.phase = 2
     THEN {[root |-> d.root, nodes |-> d.nodes, url |-> t.url] : d \in RunDocuments}
     ELSE ContentBodies(t.url))

\* the fetch of a task completes or fails, and the task leaves the semaphore
RunRespond ==
    \E k \in 1..Len(r_tasks) :
        /\ r_tasks[k].st = "fetching"
        /\ \E res \in Bodies_of(r_tasks[k]) :
              r_tasks' = [r_tasks EXCEPT ![k].st = "done", ![k].res = res]
        /\ r_sem' = r_sem + 1
        /\ UNCHANGED <<r_all_urls, r_batch_size, r_i, r_pc, r_metadata_list,
                       r_html_results, r_articles, r_content_results, r_aggregated,
                       r_batches, r_sleeps, r_produced, r_handed, r_write_failed,
                       r_n_editions, r_n_articles, r_result>>
        /\ UNCHANGED <<storeVars, NotRun>>

\* fetch_metadata_batch returns; process_batch returns [] or calls
\* fetch_structure_batch, which calls fetch_all on one URL per edition
EndPhase1 ==
    /\ r_pc = "phase1"
    /\ fetch_all_returns(r_tasks, 1)
    /\ LET metadata_list == metadata_of(ResultsOf(r_tasks, 1)) IN
          /\ r_metadata_list' = metadata_list
          /\ IF short_circuits(metadata_list)
             THEN /\ Yield(<<>>)
                  /\ r_tasks' = Consumed(r_tasks)
             ELSE /\ r_tasks' =
                        Consumed(r_tasks)
                            \o NewTasks(batch_num_of(r_i, r_batch_size), 2,
                                        [k \in 1..Len(metadata_list) |->
                                            <<"HTML_BASE_URL", metadata_list[k].edition_id>>])
                  /\ r_pc' = "phase2"
                  /\ UNCHANGED r_produced
    /\ UNCHANGED <<r_all_urls, r_batch_size, r_sem, r_i, r_html_results, r_articles,
                   r_content_results, r_aggregated, r_batches, r_sleeps, r_handed,
                   r_write_failed, r_n_editions, r_n_articles, r_result>>
    /\ UNCHANGED <<storeVars, NotRun>>

\* fetch_structure_batch returns; parse_articles_from_html; process_batch
\* returns [] or calls fetch_content_batch, which calls fetch_all on one URL
\* per article
EndPhase2 ==
    /\ r_pc = "phase2"
    /\ fetch_all_returns(r_tasks, 2)
    /\ r_html_results' = html_results_of(r_metadata_list, ResultsOf(r_tasks, 2))
    /\ r_articles' = IF short_circuits(r_html_results') THEN <<>>
                     ELSE parse_articles_from_html(r_html_results')
    /\ IF short_circuits(r_html_results') \/ short_circuits(r_articles')
       THEN /\ Yield(<<>>)
            /\ r_tasks' = Consumed(r_tasks)
       ELSE /\ r_tasks' =
                  Consumed(r_tasks)
                      \o NewTasks(batch_num_of(r_i, r_batch_size), 3,
                                  [k \in 1..Len(r_articles') |->
                                      <<"CONTENT_BASE_URL", r_articles'[k].identifier>>])
            /\ r_pc' = "phase3"
            /\ UNCHANGED r_produced
    /\ UNCHANGED <<r_all_urls, r_batch_size, r_sem, r_i, r_metadata_list,
                   r_content_results, r_aggregated, r_batches, r_sleeps, r_handed,
                   r_write_failed, r_n_editions, r_n_articles, r_result>>
    /\ UNCHANGED <<storeVars, NotRun>>

\* fetch_content_batch returns; aggregate_editions; process_batch returns
EndPhase3 ==
    /\ r_pc = "phase3"
    /\ fetch_all_returns(r_tasks, 3)
    /\ r_content_results' = content_results_of(r_articles, ResultsOf(r_tasks, 3))
    /\ r_aggregated' = TRUE
    /\ Yield(aggregate_editions(r_metadata_list,
                                content_results_of(r_articles, ResultsOf(r_tasks, 3))))
    /\ r_tasks' = Consumed(r_tasks)
    /\ UNCHANGED <<r_all_urls, r_batch_size, r_sem, r_i, r_metadata_list,
                   r_html_results, r_articles, r_batches, r_sleeps, r_handed,
                   r_write_failed, r_n_editions, r_n_articles, r_result>>
    /\ UNCHANGED <<storeVars, NotRun>>

\* the body of run's `async for`: save_editions(batch), then the totals; the
\* to_parquet call number `fail` raises (0: none does). Then run_batched
\* resumes, up to its sleep or to the next turn of its loop.
SaveBatch ==
    /\ r_pc = "yield"
    /\ LET batch == r_produced[Len(r_produced)] IN
       \E fail \in 0..(IF batch = <<>> THEN 0
                       ELSE Len(parquet_writes(batch, s_now, s_partition_by))) :
          LET r == save_editions(s_files, batch, s_now, s_partition_by, fail)
              totals == run_totals(r_n_editions, r_n_articles, batch)
          IN /\ r_handed' = Append(r_handed, batch)
             /\ r_write_failed' = (fail # 0)
             /\ s_files' = r.files
             /\ IF r.ctl = "raise"
                THEN /\ r_pc' = "raised"
                     /\ UNCHANGED <<r_n_editions, r_n_articles, r_i>>
                ELSE /\ r_n_editions' = totals[1]
                     /\ r_n_articles' = totals[2]
                     /\ r_i' = r_i + r_batch_size
                     /\ r_pc' = IF pauses(r_i, r_batch_size, Len(r_all_urls))
                                THEN "sleep" ELSE "loop"
    /\ UNCHANGED <<r_all_urls, r_batch_size, r_sem, r_tasks, r_metadata_list,
                   r_html_results, r_articles, r_content_results, r_aggregated,
                   r_batches, r_sleeps, r_produced, r_result>>
    /\ UNCHANGED <<s_now, s_partition_by, s_editions, s_pc, NotRun>>

\* `await asyncio.sleep(1)` between two batches
Sleep1 ==
    /\ r_pc = "sleep"
    /\ s_now' = s_now + 1
    /\ r_sleeps' = r_sleeps + 1
    /\ r_pc' = "loop"
    /\ UNCHANGED <<r_all_urls, r_batch_size, r_sem, r_i, r_tasks, r_metadata_list,
                   r_html_results, r_articles, r_content_results, r_aggregated,
                   r_batches, r_produced, r_handed, r_write_failed, r_n_editions,
                   r_n_articles, r_result>>
    /\ UNCHANGED <<s_files, s_partition_by, s_editions, s_pc, NotRun>>

\* the loop of run_batched is over and run returns its totals
RunReturn ==
    /\ r_pc = "loop"
    /\ r_i >= Len(r_all_urls)
    /\ r_pc' = "returned"
    /\ r_result' = <<r_n_editions, r_n_articles>>
    /\ UNCHANGED <<r_all_urls, r_batch_size, r_sem, r_i, r_tasks, r_metadata_list,
                   r_html_results, r_articles, r_content_results, r_aggregated,
                   r_batches, r_sleeps, r_produced, r_handed, r_write_failed,
                   r_n_editions, r_n_articles>>
    /\ UNCHANGED <<storeVars, NotRun>>

NextRun ==
    \/ StartBatch
    \/ RunAcquire
    \/ RunRespond
    \/ EndPhase1
    \/ EndPhase2
    \/ EndPhase3
    \/ SaveBatch
    \/ Sleep1
    \/ RunReturn

SpecRun == InitRun /\ [][NextRun]_vars

\* Every HTTP request returns or fails, every awaited call and sleep ends,
\* and the consumer iterates on: a step that stays possible is taken.
SpecRunLive == SpecRun /\ WF_vars(NextRun)

(***************************************************************************)
(* GazetteCrawler.create_metadata_urls and utils.dates.get_workdays        *)
(***************************************************************************)
\* Dates are counted in days since CrawlerConfig.DEFAULT_START_DATE,
\* 2022-08-15, a Monday: date.weekday() as rrule's weekday names
weekday(d) == <<"MO", "TU", "WE", "TH", "FR", "SA", "SU">>[(d % 7) + 1]

\* the calendar date of day d, for the days up to 2022-09-30
date_of(d) ==
    IF d + 15 <= 31 THEN [year |-> 2022, month |-> 8, day |-> d + 15]
    ELSE [year |-> 2022, month |-> 9, day |-> d - 16]

\* f"{dt:%Y-%m-%d}": the characters of the date, month and day zero-padded
\* to two digits
strftime(dt) ==
    <<dt.year, "-", dt.month \div 10, dt.month % 10, "-", dt.day \div 10, dt.day % 10>>

byweekday_with_saturday == {"MO", "TU", "WE", "TH", "FR", "SA"}

\* byweekday=(MO, TU, WE, TH, FR)
byweekday == {"MO", "TU", "WE", "TH", "FR"}

\* get_workdays(start, end): the days of rrule(DAILY, byweekday, dtstart=start,
\* until=end), in order
get_workdays(start, end) ==
    LET F[d \in (start - 1)..end] ==
            IF d < start THEN <<>>
            ELSE IF weekday(d) \in byweekday THEN Append(F[d - 1], d)
            ELSE F[d - 1]
    IN IF end < start THEN <<>> ELSE F[end]

\* create_metadata_urls
create_metadata_urls(start_date, end_date) ==
    LET dates == get_workdays(start_date, end_date)
    IN [k \in 1..Len(dates) |->
           <<"METADATA_BASE_URL">> \o strftime(date_of(dates[k])) \o <<".json">>]

\* CrawlerConfig validates DEFAULT_START_DATE <= start_date <= end_date
InitUrls ==
    /\ FetchIdle
    /\ FetchAllIdle
    /\ DedupIdle
    /\ ParseIdle
    /\ MetaIdle
    /\ AggIdle
    /\ StoreIdle
    /\ RunIdle
    /\ mp_body = None
    /\ mp_pc = "idle"
    /\ mp_result = None
    /\ u_start \in 0..MaxDays
    /\ u_end \in u_start..MaxDays
    /\ u_pc = "called"
    /\ u_urls = <<>>

\* one call create_metadata_urls()
CreateMetadataUrls ==
    /\ u_pc = "called"
    /\ u_urls' = create_metadata_urls(u_start, u_end)
    /\ u_pc' = "returned"
    /\ UNCHANGED <<mp_body, mp_pc, mp_result, u_start, u_end>>
    /\ UNCHANGED <<fetchVars, faVars, dedupVars, parseVars, metaVars, aggVars,
                   storeVars, runVars>>

NextUrls == CreateMetadataUrls

SpecUrls == InitUrls /\ [][NextUrls]_vars

(***************************************************************************)
(* Claims                                                                  *)
(***************************************************************************)
InFlight == {i \in 1..Len(urls) : task[i].pc \in {"fetching", "sleeping", "wrapsleep"}}

\* C1: when fetch_all has returned, its list is as long as the URL list and
\* its i-th element is what the task of the i-th URL ended with (the
\* response of that very URL, or None for a None and for an exception),
\* whatever the order the tasks finished in.
C1_ResultsMatchUrls ==
    fa_pc = "returned" =>
        /\ Len(results) = Len(urls)
        /\ \A i \in 1..Len(urls) :
              /\ results[i] \in {None, Response(urls[i])}
              /\ results[i] = IF task[i].result.ctl = "return"
                              THEN task[i].result.val ELSE None

\* C1 witness: the second task finished first, the first URL got its
\* response and the second raised.
C1_Witness ==
    /\ fa_pc = "returned"
    /\ Len(urls) >= 2
    /\ completed[1] = 2
    /\ results[1] = Response(urls[1])
    /\ task[2].result.ctl = "raise"

\* C2: the number of tasks admitted by the semaphore and not finished
\* (fetching, or sleeping in a backoff) never exceeds max_concurrent.
C2_AtMostNInFlight ==
    Cardinality(InFlight) <= max_concurrent

\* C2 witness: the limiter is full with a task in a backoff while another
\* URL waits.
C2_Witness ==
    /\ Cardinality(InFlight) = max_concurrent
    /\ \E i \in 1..Len(urls) : task[i].pc = "sleeping"
    /\ \E i \in 1..Len(urls) : task[i].pc = "pending"

\* C3: HttpClient.fetch never raises: it ends returning a response or None.
C3_FetchNeverRaises ==
    /\ f_pc # "raised"
    /\ f_pc = "returned" => f_result \in {None, Response(TheUrl)}

\* C3 witness: all attempts failed retryably, retries exhausted, None returned.
C3_Witness ==
    /\ f_pc = "returned"
    /\ f_max_retries >= 2
    /\ Len(f_history) = f_max_retries
    /\ \A k \in 1..Len(f_history) : f_history[k].kind \in {"timeout", "network"}
    /\ f_result = None

\* C4: an attempt that ends with a terminal status (4xx other than 408 and
\* 429) or with an exception of an unexpected class is the last attempt of
\* its call, and the call has returned None.
C4_TerminalEndsCall ==
    \A k \in 1..Len(f_history) :
        LET o == f_history[k] IN
        (\/ o.kind = "unexpected"
         \/ o.kind = "status" /\ 400 <= o.code /\ o.code < 500 /\ o.code \notin {408, 429})
        => /\ k = Len(f_history)
           /\ f_pc = "returned"
           /\ f_result = None

\* C4 witness: a 404 after a retried 500, with attempts still left.
C4_Witness ==
    /\ f_max_retries = 3
    /\ Len(f_history) = 2
    /\ f_history[1] = [kind |-> "status", code |-> 500]
    /\ f_history[2] = [kind |-> "status", code |-> 404]
    /\ f_pc = "returned"

\* C5: no URL of fetch_all gets more than max_retries GETs.
C5_AtMostMaxRetriesRequests ==
    \A i \in 1..Len(urls) : requests[i] <= max_retries

\* C6: a task that raised gives None at its position and nothing else: the
\* call does not raise, every sibling task ran to its end and a sibling's
\* position holds what the sibling's own fetch returned.
C6_FailureIsolated ==
    \A i \in 1..Len(urls) :
        (task[i].pc = "done" /\ task[i].result.ctl = "raise") =>
            /\ fa_pc # "raised"
            /\ fa_pc = "returned" =>
                  /\ results[i] = None
                  /\ \A j \in 1..Len(urls) \ {i} :
                        /\ task[j].pc = "done"
                        /\ task[j].result.ctl = "return" =>
                              results[j] = task[j].result.val

\* C6 witness: one task raised, its sibling returned its response.
C6_Witness ==
    /\ fa_pc = "returned"
    /\ \E i, j \in 1..Len(urls) :
          /\ task[i].result.ctl = "raise"
          /\ results[i] = None
          /\ results[j] = Response(urls[j])

\* C7: deduplicate_keep_deepest returns exactly one record per article_id of
\* its input, and that record is the first one, in input order, among the
\* records of that article_id whose path is the longest of the group.
C7_OnePerIdFirstDeepest ==
    d_pc = "returned" =>
        LET ids == {d_articles[k].article_id : k \in 1..Len(d_articles)}
            group(id) == {k \in 1..Len(d_articles) : d_articles[k].article_id = id}
            deepest(id) == {k \in group(id) :
                              \A j \in group(id) :
                                  Len(d_articles[j].hierarchy_path)
                                      <= Len(d_articles[k].hierarchy_path)}
            first(id) == CHOOSE k \in deepest(id) : \A j \in deepest(id) : k <= j
        IN /\ Len(d_deduplicated) = Cardinality(ids)
           /\ \A id \in ids :
                 /\ Cardinality({i \in 1..Len(d_deduplicated) :
                                    d_deduplicated[i].article_id = id}) = 1
                 /\ \E i \in 1..Len(d_deduplicated) :
                       d_deduplicated[i] = d_articles[first(id)]

\* C7 witness: two different records of one article_id tie at the greatest
\* depth, after a shallower one; the earlier of the two is returned.
C7_Witness ==
    /\ d_pc = "returned"
    /\ Len(d_articles) = 3
    /\ \A k \in 1..3 : d_articles[k].article_id = "1"
    /\ Len(d_articles[1].hierarchy_path) = 1
    /\ Len(d_articles[2].hierarchy_path) = 2
    /\ Len(d_articles[3].hierarchy_path) = 2
    /\ d_articles[2] # d_articles[3]
    /\ d_deduplicated = <<d_articles[2]>>

RECURSIVE EnclosingLabels(_, _)
\* the labels of the folders enclosing element n, from the root down
EnclosingLabels(nodes, n) ==
    IF nodes[n].parent = 0 THEN <<>>
    ELSE Append(EnclosingLabels(nodes, nodes[n].parent), nodes[nodes[n].parent].label)

\* C8: for a document with the root <ul>, parse returns exactly one record
\* per article link, whose hierarchy_path is the list of the labels of the
\* folders enclosing the link, from the root down.
C8_OneRecordPerLink ==
    (p_pc = "returned" /\ p_html.root) =>
        \A n \in 1..Len(p_html.nodes) :
            p_html.nodes[n].kind = "leaf" =>
                /\ Cardinality({i \in 1..Len(p_articles) :
                                   p_articles[i].identifier = n}) = 1
                /\ \A i \in 1..Len(p_articles) :
                      p_articles[i].identifier = n =>
                          p_articles[i].hierarchy_path
                              = EnclosingLabels(p_html.nodes, n)

\* C9: fetch_metadata_batch does not raise, and the metadata list it returns
\* is the concatenation, in URL order, of what MetadataParser.parse returned
\* for the URLs that got a response and whose parse did not raise.
C9_PartialFailuresExcluded ==
    /\ m_pc # "raised"
    /\ m_pc = "returned" =>
          LET kept(k) ==
                  IF responses[k] = None THEN <<>>
                  ELSE IF MetadataParser_parse(m_body[k]).ctl = "raise" THEN <<>>
                  ELSE MetadataParser_parse(m_body[k]).val
              concat[k \in 0..Len(responses)] ==
                  IF k = 0 THEN <<>> ELSE concat[k - 1] \o kept(k)
          IN all_metadata = concat[Len(responses)]

\* C9 witness: the first URL got no response, the second one's edition is
\* returned.
C9_Witness ==
    /\ m_pc = "returned"
    /\ Len(responses) = 2
    /\ responses[1] = None
    /\ responses[2] # None
    /\ Len(all_metadata) = 1
    /\ all_metadata[1].publication_date = 2

\* C10 as stated: one GazetteEdition per entry of the metadata list: as many
\* editions as entries, every entry the metadata of exactly one edition, and
\* an entry without a surviving pair has an empty article list.
C10_OneEditionPerEntry ==
    a_pc = "returned" =>
        /\ Len(a_editions) = Len(a_metadata_list)
        /\ \A k \in 1..Len(a_metadata_list) :
              Cardinality({i \in 1..Len(a_editions) :
                              a_editions[i].metadata = a_metadata_list[k]}) = 1

\* C10 amended: one GazetteEdition per distinct edition_id of the metadata
\* list, carrying the last entry of that edition_id, with an empty article
\* list when no pair of that edition_id came in.
C10_OneEditionPerEditionId ==
    a_pc = "returned" =>
        LET ids == {a_metadata_list[k].edition_id : k \in 1..Len(a_metadata_list)}
            entries(id) == {k \in 1..Len(a_metadata_list) :
                              a_metadata_list[k].edition_id = id}
            last(id) == CHOOSE k \in entries(id) : \A j \in entries(id) : j <= k
        IN /\ Len(a_editions) = Cardinality(ids)
           /\ \A id \in ids :
                 \E i \in 1..Len(a_editions) :
                     /\ a_editions[i].metadata = a_metadata_list[last(id)]
                     /\ \A j \in 1..Len(a_editions) :
                           a_editions[j].metadata.edition_id = id => j = i
                     /\ (\A q \in 1..Len(a_articles_with_content) :
                            a_articles_with_content[q].article_metadata.edition_id # id)
                        => a_editions[i].articles = <<>>

\* C10 witness: two editions, three pairs of the first, none of the second:
\* two editions come out, the second with an empty article list.
C10_Witness ==
    /\ a_pc = "returned"
    /\ Len(a_metadata_list) = 2
    /\ a_metadata_list[1].edition_id = "E1"
    /\ a_metadata_list[2].edition_id = "E2"
    /\ Len(a_articles_with_content) = 3
    /\ \A q \in 1..3 : a_articles_with_content[q].article_metadata.edition_id = "E1"
    /\ Len(a_editions) = 2
    /\ Len(a_editions[1].articles) = 3
    /\ a_editions[2].articles = <<>>

\* C11: in the output of aggregate_editions the articles of an edition are
\* exactly the pairs whose record has that edition's edition_id, in input
\* order (so a pair of an edition_id absent from the metadata list is in no
\* edition and a pair of a present one is in exactly one).
C11_ArticlesUnderOwnEdition ==
    a_pc = "returned" =>
        \A i \in 1..Len(a_editions) :
            LET id == a_editions[i].metadata.edition_id
                own == SelectSeq(a_articles_with_content,
                                 LAMBDA item : item.article_metadata.edition_id = id)
            IN /\ \A q \in 1..Len(a_editions[i].articles) :
                      a_editions[i].articles[q].metadata.edition_id = id
               /\ a_editions[i].articles =
                      [q \in 1..Len(own) |->
                          Article(own[q].article_metadata, own[q].content)]

\* C11 witness: the metadata list has edition E1 only; of the pairs, one is of
\* E2 and is dropped, two are of E1 and come out in input order.
C11_Witness ==
    /\ a_pc = "returned"
    /\ Len(a_metadata_list) = 1
    /\ a_metadata_list[1].edition_id = "E1"
    /\ Len(a_articles_with_content) = 3
    /\ a_articles_with_content[1].article_metadata.edition_id = "E1"
    /\ a_articles_with_content[1].article_metadata.article_id = "2"
    /\ a_articles_with_content[2].article_metadata.edition_id = "E2"
    /\ a_articles_with_content[3].article_metadata.edition_id = "E1"
    /\ a_articles_with_content[3].article_metadata.article_id = "1"
    /\ Len(a_editions) = 1
    /\ Len(a_editions[1].articles) = 2
    /\ a_editions[1].articles[1].metadata.article_id = "2"
    /\ a_editions[1].articles[2].metadata.article_id = "1"

C13_WriteFailureRaised ==
    r_write_failed =>
        LET editions[k \in 0..Len(r_handed)] ==
                IF k = 0 THEN 0 ELSE editions[k - 1] + Len(r_handed[k])
        IN /\ r_pc = "raised"
           /\ r_result = <<>>
           /\ r_n_editions = editions[Len(r_handed) - 1]

\* C13 witness: the second batch's write failed after a first batch with an
\* edition was saved; run raised with the first batch counted alone.
C13_Witness ==
    /\ r_write_failed
    /\ r_pc = "raised"
    /\ Len(r_handed) = 2
    /\ Len(r_handed[1]) = 1
    /\ Len(r_handed[2]) = 1
    /\ r_n_editions = 1

\* the rows of the files of one table of the store, each with its file
StoredRows(table) ==
    UNION {{[file |-> path, row |-> s_files[path][k]] : k \in 1..Len(s_files[path])} :
              path \in {q \in DOMAIN s_files : q[1] = table}}

\* the number of rows in the files of one table of the store
StoredCount(table) ==
    Cardinality(UNION {{<<path, k>> : k \in 1..Len(s_files[path])} :
                          path \in {q \in DOMAIN s_files : q[1] = table}})

\* C14: when save_editions has raised because a write failed, the store holds
\* no row of the batch, in none of the three tables.
C14_NoPartialBatch ==
    s_pc = "raised" =>
        /\ StoredCount("gazettes") = 0
        /\ StoredCount("articles") = 0
        /\ StoredCount("relationships") = 0

\* C15: after save_editions has returned, the store holds one edition row per
\* edition, one article row and one relationship row per article, all with
\* one batch_id, and every article row and relationship row has the
\* edition_hash of the edition row of its edition_id.
C15_RowSetsComplete ==
    s_pc = "returned" =>
        LET total == Cardinality(UNION {{<<i, j>> : j \in 1..Len(s_editions[i].articles)} :
                                           i \in 1..Len(s_editions)})
            rows == StoredRows("gazettes") \cup StoredRows("articles")
                        \cup StoredRows("relationships")
        IN /\ StoredCount("gazettes") = Len(s_editions)
           /\ StoredCount("articles") = total
           /\ StoredCount("relationships") = total
           /\ \A x, y \in rows : x.row.batch_id = y.row.batch_id
           /\ \A x \in StoredRows("articles") \cup StoredRows("relationships") :
                 \E e \in StoredRows("gazettes") :
                     /\ e.row.edition_id = x.row.edition_id
                     /\ e.row.edition_hash = x.row.edition_hash

\* C16: after save_editions has returned, an article row whose content is
\* longer than 2000 has no inline text and its content is in a blob of the
\* store; a row whose content is at most 2000 long has its text inline.
C16_LargeContentExternalized ==
    s_pc = "returned" =>
        \A x \in StoredRows("articles") :
            IF x.row.content_data.content_size > 2000
            THEN /\ x.row.content_data.raw_content = None
                 /\ StoredCount("content") >= 1
            ELSE x.row.content_data.raw_content # None

\* C20: a fetch that has started belongs to a batch whose earlier batches
\* have all been yielded, and every fetch of an earlier phase of its batch
\* is done: phase 2 starts after every phase-1 fetch completed or failed,
\* phase 3 after every phase-2 fetch, batch k+1 after batch k was yielded.
C20_PhasesAndBatchesInSequence ==
    \A k \in 1..Len(r_tasks) :
        r_tasks[k].st # "pending" =>
            /\ Len(r_produced) >= r_tasks[k].batch - 1
            /\ \A j \in 1..Len(r_tasks) :
                  (r_tasks[j].batch = r_tasks[k].batch
                      /\ r_tasks[j].phase < r_tasks[k].phase)
                  => r_tasks[j].st = "done"

\* C20 witness: a content fetch of the second batch is in flight, after the
\* metadata and structure fetches of that batch and the yield of the first.
C20_Witness ==
    /\ Len(r_produced) = 1
    /\ \E k \in 1..Len(r_tasks) :
          /\ r_tasks[k].batch = 2
          /\ r_tasks[k].phase = 3
          /\ r_tasks[k].st = "fetching"
    /\ \E j \in 1..Len(r_tasks) : r_tasks[j].phase = 1 /\ r_tasks[j].st = "done"
    /\ \E j \in 1..Len(r_tasks) : r_tasks[j].phase = 2 /\ r_tasks[j].st = "done"

\* C17: in the list parse returned, the supplement of the metadata of every
\* item is a boolean: true for "1", 1, true and "true"/"yes" in any letter
\* case; false for "0", 0, false, an absent field and every other string;
\* for every number, whether it is non-zero.
C17_SupplementNormalized ==
    (mp_pc = "returned" /\ mp_body.json = "object") =>
        LET items == SelectSeq(mp_body.itens, LAMBDA item : item.converts) IN
        /\ Len(mp_result.val) = Len(items)
        /\ \A k \in 1..Len(items) :
              LET s == items[k].suplemento
                  b == mp_result.val[k].supplement
              IN /\ b \in BOOLEAN
                 /\ s.type = "bool" => b = (s.v = "true")
                 /\ s.type = "str" =>
                       b = (s.v \in {"1", "true", "True", "TRUE", "yes", "YES"})
                 /\ s.type = "absent" => b = FALSE
                 /\ s.type \in {"int", "float"} => b = (s.v \notin {"0", "0.0"})

\* C18: for every body that is not usable (not JSON, or a JSON value of any
\* shape with an error field or without a non-empty item list) parse
\* returns the empty list and raises nothing.
C18_UnusableBodyGivesEmptyList ==
    (mp_pc \in {"returned", "raised"}
        /\ (mp_body.json # "object" \/ mp_body.itens = <<>>))
    => mp_result = Returned(<<>>)

\* C19: the list create_metadata_urls returned has exactly one URL per day
\* from Monday to Friday between start_date and end_date inclusive, in
\* ascending date order, each ending in the date as YYYY-MM-DD and ".json",
\* and none for a Saturday or Sunday.
C19_OneUrlPerWorkingDay ==
    u_pc = "returned" =>
        LET days == u_start..u_end
            working == {d \in days : weekday(d) \notin {"SA", "SU"}}
            ending(d) == strftime(date_of(d)) \o <<".json">>
            tail(url) == SubSeq(url, Len(url) - 7, Len(url))
        IN /\ Len(u_urls) = Cardinality(working)
           /\ \A d \in working :
                 \E k \in 1..Len(u_urls) : tail(u_urls[k]) = ending(d)
           /\ \A d \in days \ working :
                 \A k \in 1..Len(u_urls) : tail(u_urls[k]) # ending(d)
           /\ \A k1, k2 \in 1..Len(u_urls) :
                 k1 < k2 =>
                    \E d1, d2 \in working :
                        /\ d1 < d2
                        /\ tail(u_urls[k1]) = ending(d1)
                        /\ tail(u_urls[k2]) = ending(d2)

\* C19 witness: a range from a Friday into the next month gave one URL per
\* day but the two of the weekend in between.
C19_Witness ==
    /\ u_pc = "returned"
    /\ weekday(u_start) = "FR"
    /\ date_of(u_start).month # date_of(u_end).month
    /\ Len(u_urls) = (u_end - u_start + 1) - 2
    /\ Len(u_urls) >= 2

\* C21: every entry of html_results holds the page answered at the URL of
\* the edition whose id it carries, and every entry of content_results the
\* content answered at the URL of its article, whatever the order the
\* fetches completed in and whichever of them failed.
C21_ResponsesPairedByPosition ==
    /\ \A k \in 1..Len(r_html_results) :
          r_html_results[k].url = <<"HTML_BASE_URL", r_html_results[k].edition_id>>
    /\ \A k \in 1..Len(r_content_results) :
          r_content_results[k].content.raw_content.at
              = <<"CONTENT_BASE_URL", r_content_results[k].article_metadata.identifier>>

\* C21 witness: of two editions the fetch of the first page failed, the
\* second page was paired with the second edition, and a content was
\* paired with its article.
C21_Witness ==
    /\ Len(r_metadata_list) = 2
    /\ r_metadata_list[1].edition_id # r_metadata_list[2].edition_id
    /\ Len(r_html_results) = 1
    /\ r_html_results[1].edition_id = r_metadata_list[2].edition_id
    /\ Len(r_content_results) = 1

\* C22: a phase-2 fetch exists only in a batch whose phase 1 gave metadata,
\* a phase-3 fetch only in a batch whose phase 2 gave a page and an article
\* after deduplication, the aggregator is called only in such a batch, and
\* a batch that stopped short yields the empty edition list.
C22_EmptyPhaseShortCircuits ==
    /\ (\E k \in 1..Len(r_tasks) : r_tasks[k].phase = 2) => r_metadata_list # <<>>
    /\ (\E k \in 1..Len(r_tasks) : r_tasks[k].phase = 3)
          => (r_html_results # <<>> /\ r_articles # <<>>)
    /\ r_aggregated
          => (r_metadata_list # <<>> /\ r_html_results # <<>> /\ r_articles # <<>>)
    /\ (r_pc = "yield" /\ ~r_aggregated) => r_produced[Len(r_produced)] = <<>>

\* C22 witness: phase 2 gave a page without any article, and the batch
\* ended with the empty list, no phase-3 fetch and no aggregation.
C22_Witness ==
    /\ r_pc = "yield"
    /\ r_metadata_list # <<>>
    /\ r_html_results # <<>>
    /\ r_articles = <<>>
    /\ ~r_aggregated
    /\ \A k \in 1..Len(r_tasks) : r_tasks[k].phase # 3
    /\ r_produced[Len(r_produced)] = <<>>

\* C23: when run has returned, the batches of run_batched are consecutive
\* windows of the URL list: together, in order, they are the list; every
\* batch but the last has batch_size URLs, the last between 1 and
\* batch_size; their number is ceil(total / batch_size).
C23_BatchesPartitionUrls ==
    r_pc = "returned" =>
        LET concat[k \in 0..Len(r_batches)] ==
                IF k = 0 THEN <<>> ELSE concat[k - 1] \o r_batches[k]
            total == Len(r_all_urls)
            B == Len(r_batches)
        IN /\ concat[B] = r_all_urls
           /\ \A k \in 1..B :
                 /\ k < B => Len(r_batches[k]) = r_batch_size
                 /\ Len(r_batches[k]) >= 1
                 /\ Len(r_batches[k]) <= r_batch_size
           /\ B * r_batch_size >= total
           /\ B = 0 \/ (B - 1) * r_batch_size < total

\* C23 witness: a run of two batches of one URL each has returned.
C23_Witness ==
    /\ r_pc = "returned"
    /\ Len(r_batches) = 2
    /\ r_batches[1] = <<r_all_urls[1]>>
    /\ r_batches[2] = <<r_all_urls[2]>>

\* C24: the pause happens only after a batch was handed to the consumer and
\* before any fetch of the next batch starts, never after the last batch:
\* a run that returned after B batches has paused B-1 times, and 0 times
\* when B is 0 or 1.
C24_PauseBetweenBatchesOnly ==
    /\ r_sleeps <= Len(r_handed)
    /\ \A k \in 1..Len(r_tasks) :
          r_tasks[k].st # "pending" => r_sleeps >= r_tasks[k].batch - 1
    /\ r_pc = "returned" =>
          r_sleeps = IF Len(r_batches) = 0 THEN 0 ELSE Len(r_batches) - 1

\* C24 witness: a run of two batches has returned after one pause.
C24_Witness ==
    /\ r_pc = "returned"
    /\ Len(r_batches) = 2
    /\ Len(r_handed) = 2
    /\ r_sleeps = 1

\* C25: the records passed to phase 3 have pairwise distinct article ids
\* across all editions of the batch, each the deepest of the records parsed
\* with its id from the pages of the batch, and in the editions of a batch
\* no article id appears twice.
C25_DedupAcrossBatch ==
    /\ \A k1, k2 \in 1..Len(r_articles) :
          r_articles[k1].article_id = r_articles[k2].article_id => k1 = k2
    /\ \A k \in 1..Len(r_articles) :
          \A h \in 1..Len(r_html_results) :
              LET parsed == parse(r_html_results[h].html, r_html_results[h].edition_id)
              IN \A j \in 1..Len(parsed) :
                    parsed[j].article_id = r_articles[k].article_id
                        => depth(parsed[j]) <= depth(r_articles[k])
    /\ \A b \in 1..Len(r_produced) :
          \A i1, i2 \in 1..Len(r_produced[b]) :
              \A j1 \in 1..Len(r_produced[b][i1].articles) :
                  \A j2 \in 1..Len(r_produced[b][i2].articles) :
                      r_produced[b][i1].articles[j1].metadata.article_id
                            = r_produced[b][i2].articles[j2].metadata.article_id
                      => (i1 = i2 /\ j1 = j2)

\* C25 witness: two editions of one batch have the same article id on their
\* pages, at depth 0 in the first and depth 1 in the second; the record of
\* the second survived and the batch has that one article.
C25_Witness ==
    /\ r_pc = "yield"
    /\ Len(r_html_results) = 2
    /\ r_html_results[1].edition_id # r_html_results[2].edition_id
    /\ Len(parse(r_html_results[1].html, r_html_results[1].edition_id)) >= 1
    /\ Len(r_articles) = 1
    /\ depth(r_articles[1]) = 1
    /\ r_articles[1].edition_id = r_html_results[2].edition_id
    /\ Len(r_produced[Len(r_produced)]) >= 1
    /\ \A i \in 1..Len(r_produced[Len(r_produced)]) :
          r_produced[Len(r_produced)][i].metadata.edition_id = r_html_results[1].edition_id
              => r_produced[Len(r_produced)][i].articles = <<>>

\* C26: every attempt of HttpClient.fetch but the last ended with a
\* retryable failure (timeout, network error, status 408, 429 or 5xx); a
\* successful attempt is the last and its response is returned; a call in
\* which every attempt failed retryably has returned only after exactly
\* max_retries requests, with None; no call issues more than max_retries.
C26_RetryOnlyRetryableUpToMax ==
    LET retryable(o) ==
            \/ o.kind \in {"timeout", "network"}
            \/ o.kind = "status" /\ (o.code \in {408, 429} \/ (500 <= o.code /\ o.code < 600))
        success(o) == o.kind = "status" /\ 200 <= o.code /\ o.code < 300
    IN /\ Len(f_history) <= f_max_retries
       /\ \A k \in 1..Len(f_history) :
             /\ k < Len(f_history) => retryable(f_history[k])
             /\ success(f_history[k])
                   => /\ k = Len(f_history)
                      /\ f_pc = "returned"
                      /\ f_result = Response(TheUrl)
       /\ (f_pc = "returned" /\ \A k \in 1..Len(f_history) : retryable(f_history[k]))
             => (Len(f_history) = f_max_retries /\ f_result = None)

\* C26 witness: a 500 and a timeout were retried, the third attempt
\* succeeded and its response was returned.
C26_Witness ==
    /\ f_max_retries = 3
    /\ Len(f_history) = 3
    /\ f_history[1] = [kind |-> "status", code |-> 500]
    /\ f_history[2] = [kind |-> "timeout", code |-> 0]
    /\ f_history[3] = [kind |-> "status", code |-> 200]
    /\ f_pc = "returned"
    /\ f_result = Response(TheUrl)

\* C27: under the fair schedule, whatever max_concurrent and the number of
\* URLs, every URL is admitted by the limiter and its fetch finishes, and
\* fetch_all returns.
C27_EveryUrlFetchedAndReturned ==
    <>(/\ fa_pc = "returned"
       /\ \A i \in 1..Len(urls) : task[i].pc = "done"
       /\ Len(completed) = Len(urls))

\* C27 witness: fetch_all has returned for more URLs than max_concurrent.
C27_Witness ==
    /\ fa_pc = "returned"
    /\ Len(urls) > max_concurrent
    /\ \A i \in 1..Len(urls) : task[i].pc = "done"

C29_PermitsNeverLeak ==
    /\ semaphore = max_concurrent
                     - Cardinality({i \in 1..Len(urls) :
                                       task[i].pc \in {"fetching", "sleeping", "wrapsleep"}})
    /\ fa_pc \in {"returned", "raised"} => semaphore = max_concurrent

\* C29 witness: fetch_all has returned with one fetch that raised and one
\* that gave None, on a limiter of one permit, which is free again.
C29_Witness ==
    /\ fa_pc = "returned"
    /\ max_concurrent = 1
    /\ semaphore = 1
    /\ \E i, j \in 1..Len(urls) :
          /\ task[i].result.ctl = "raise"
          /\ task[j].result = Returned(None)

\* C30: for a document with the root <ul> whose article links have distinct
\* article ids, deduplicate_keep_deepest of what parse returned holds
\* exactly one record per link, and nothing else, and the record's
\* hierarchy_path is the list of the labels of all the folders enclosing
\* the link, from the root down.
C30_DedupOfParseOnePerLink ==
    LET nodes == p_html.nodes
        leaves == {n \in 1..Len(nodes) : nodes[n].kind = "leaf"}
    IN (/\ p_pc = "deduplicated"
        /\ p_html.root
        /\ \A n, q \in leaves : nodes[n].article_id = nodes[q].article_id => n = q)
          => /\ Len(p_unique) = Cardinality(leaves)
             /\ \A n \in leaves :
                   \E i \in 1..Len(p_unique) :
                       /\ p_unique[i].identifier = n
                       /\ p_unique[i].article_id = nodes[n].article_id
                       /\ p_unique[i].edition_id = p_edition_id
                       /\ p_unique[i].hierarchy_path = EnclosingLabels(nodes, n)
                       /\ \A j \in 1..Len(p_unique) :
                             p_unique[j].identifier = n => j = i

\* C30 witness: a link inside two nested folders: parse returned it more
\* than once, with shorter paths too, and one record with the two labels is
\* left.
C30_Witness ==
    /\ p_pc = "deduplicated"
    /\ p_html.root
    /\ Len(p_html.nodes) = 3
    /\ p_html.nodes[1].kind = "folder"
    /\ p_html.nodes[2].kind = "folder"
    /\ p_html.nodes[2].parent = 1
    /\ p_html.nodes[3].kind = "leaf"
    /\ p_html.nodes[3].parent = 2
    /\ Len(p_articles) > 1
    /\ \E i \in 1..Len(p_articles) : Len(p_articles[i].hierarchy_path) < 2
    /\ Len(p_unique) = 1
    /\ Len(p_unique[1].hierarchy_path) = 2

====
